---- MODULE Spec2Model ----
(***************************************************************************)
(* Model of the content pipeline of pages/2_Sequential_Chain.py            *)
(* (ContentPipeline.run_pipeline and the page code that calls it) and of   *)
(* utils.format_error_message.                                             *)
(*                                                                         *)
(* A text of the pipeline is a tuple: <<s>> for a text typed by the user, a *)
(* literal piece of a template or an answer of the unconstrained oracle,   *)
(* and <<"gen", p>> for the answer of a stub oracle to the rendered prompt *)
(* p.  A rendered prompt is the sequence of the literal pieces of a        *)
(* template and of the values substituted for its placeholders.  Every     *)
(* other text (an exception message, an address, a status, a message of    *)
(* the chat) is the sequence of its code points, so that lower-casing,     *)
(* substring search and the preparation of an address are computed as      *)
(* Python computes them.                                                   *)
(***************************************************************************)
EXTENDS Integers, Sequences, FiniteSets, TLC

VARIABLES
    pc,        \* per run: "idle", "ready" (before a step), "wait" (oracle call in flight),
               \* "done" (returned), "raised" (left by an exception)
    step,      \* per run: index 0..3 of the step being executed
    args,      \* per run: the arguments of the run_pipeline call
    pipeline,  \* per run: self.pipeline of the ContentPipeline built for the click
    result,    \* the local dict `result` of each run_pipeline frame
    calls,     \* per run: the oracle calls issued so far, with what each returned
    sinkLog,   \* per run: what was written to status_text / progress_bar
    ret,       \* per run: the dict run_pipeline returned
    exc,       \* per run: the exception raised inside the try block, if any
    oracle,    \* the language model behind the chains: unconstrained, or a stub
    active,    \* the sessions that click
    stop,      \* per run: 0, or the number of the oracle call during which the
               \* user asked Streamlit to stop the script
    reports,   \* the texts the error handlers returned, each with the failure
               \* it was returned for
    session_state,  \* st.session_state of the session of the chat page
    ui_pc,          \* where the script of the chat page is: "idle" between two
                    \* runs, "sidebar", "chatbot", "input" inside
                    \* ChatInterface.render, "call" while a handler waits for
                    \* the chatbot
    script_runs,    \* the number of runs of the script so far
    conn_test,      \* the last call of ConnectionManager.test_connection: the
                    \* answer of the server and what the call returned
    request,        \* the last call of the chain of the chatbot: what was
                    \* forwarded and, once it has ended, what the model did
                    \* and what the call returned
    app_messages,   \* st.session_state.messages of a session of app.py
    app_pc          \* where the script of app.py is: "idle", "call" while
                    \* get_response is awaited, or "rerun" when st.rerun()
                    \* has asked for a new run

\* the variables of the content pipeline page
pipelineVars == <<pc, step, args, pipeline, result, calls, sinkLog, ret, exc, oracle, active, stop>>

\* the variables of the chat page
chatVars == <<session_state, ui_pc, script_runs, conn_test, request>>

\* the variables of the chat of app.py
appVars == <<app_messages, app_pc>>

vars == <<pc, step, args, pipeline, result, calls, sinkLog, ret, exc, oracle, active, stop,
          reports, session_state, ui_pc, script_runs, conn_test, request,
          app_messages, app_pc>>

----------------------------------------------------------------------------
(* Bounds of the model *)

\* number of run_pipeline calls that may be in progress together
MaxRuns == 2
\* number of different texts the oracle may answer with
NumTexts == 2

\* number of failures reported one after the other
MaxReports == 2
\* number of runs of the script of the chat page
MaxScriptRuns == 3
\* number of messages in the history of the chat of app.py
MaxAppMessages == 4

Runs == 1..MaxRuns

TextName == <<"T1", "T2", "T3", "T4", "T5">>
Texts == {<<TextName[i]>> : i \in 1..NumTexts}

\* values the page's widgets hand to run_pipeline
Topics == {<<"AI">>, <<"Rust">>}
Tones == {<<"professional">>}
Lengths == {<<"medium (500-800 words)">>}

----------------------------------------------------------------------------
(* Mappings (Python dicts with string keys) *)

EmptyMap == [k \in {} |-> <<>>]

Put(m, k, v) == [x \in (DOMAIN m) \cup {k} |-> IF x = k THEN v ELSE m[x]]

----------------------------------------------------------------------------
(* Texts.  A text (a Python str) is the sequence of its code points, so the
   methods of str and the functions of the libraries that work on characters
   are defined on every text; Text writes a text of printable ASCII
   characters.  A text holds no surrogate (U+D800..U+DFFF).  The tables of
   ranges are those of the Unicode database of the interpreter
   (unicodedata.unidata_version 14.0.0). *)

\* the printable ASCII characters U+0020..U+005F and U+0061..U+007E
AsciiText ==
    " !\"#$%&'()*+,-./0123456789:;<=>?@ABCDEFGHIJKLMNOPQRSTUVWXYZ[\\]^_"
AsciiLowerText == "abcdefghijklmnopqrstuvwxyz{|}~"

\* ord(c) for a printable ASCII character
Ord ==
    [c \in {SubSeq(AsciiText, i, i) : i \in 1..Len(AsciiText)}
            \cup {SubSeq(AsciiLowerText, i, i) : i \in 1..Len(AsciiLowerText)} |->
        IF \E i \in 1..Len(AsciiText) : SubSeq(AsciiText, i, i) = c
        THEN 31 + CHOOSE i \in 1..Len(AsciiText) : SubSeq(AsciiText, i, i) = c
        ELSE 96 + CHOOSE i \in 1..Len(AsciiLowerText) : SubSeq(AsciiLowerText, i, i) = c]

Text(s) == [i \in 1..Len(s) |-> Ord[SubSeq(s, i, i)]]

\* the characters of a text of ASCII characters, as a set
Chars(s) == {Ord[SubSeq(s, i, i)] : i \in 1..Len(s)}

\* "".join(parts)
RECURSIVE Concat(_)
Concat(parts) ==
    IF parts = <<>> THEN <<>>
    ELSE IF Len(parts) = 1 THEN parts[1]
    ELSE Concat(SubSeq(parts, 1, Len(parts) \div 2))
            \o Concat(SubSeq(parts, Len(parts) \div 2 + 1, Len(parts)))

\* c is in one of the ranges <<first, last>> of a table
InRanges(c, ranges) ==
    \E i \in 1..Len(ranges) : ranges[i][1] <= c /\ c <= ranges[i][2]

\* s.startswith(p), s.endswith(p)
StartsWith(s, p) == Len(s) >= Len(p) /\ SubSeq(s, 1, Len(p)) = p
EndsWith(s, p) == Len(s) >= Len(p) /\ SubSeq(s, Len(s) - Len(p) + 1, Len(s)) = p

\* s.find(c) + 1 for a character of the set: the place of the first one, 0
\* when there is none
Find(s, stops) ==
    IF \E i \in 1..Len(s) : s[i] \in stops
    THEN CHOOSE i \in 1..Len(s) : s[i] \in stops /\ \A j \in 1..(i - 1) : s[j] \notin stops
    ELSE 0

\* the characters of s before the first one that is in `stops`
Before(s, stops) == IF Find(s, stops) = 0 THEN s ELSE SubSeq(s, 1, Find(s, stops) - 1)

\* s[n:]
From(s, n) == SubSeq(s, n + 1, Len(s))

\* the mappings of str.lower() that give one character: the characters
\* first, first + step, ..., last map to themselves plus delta
\* (<<first, last, step, delta>>)
LowerRanges ==
    << <<65,90,1,32>>, <<192,214,1,32>>, <<216,222,1,32>>, <<256,302,2,1>>, <<306,310,2,1>>,
       <<313,327,2,1>>, <<330,374,2,1>>, <<376,376,1,-121>>, <<377,381,2,1>>, <<385,385,1,210>>,
       <<386,388,2,1>>, <<390,390,1,206>>, <<391,391,1,1>>, <<393,394,1,205>>, <<395,395,1,1>>,
       <<398,398,1,79>>, <<399,399,1,202>>, <<400,400,1,203>>, <<401,401,1,1>>, <<403,403,1,205>>,
       <<404,404,1,207>>, <<406,406,1,211>>, <<407,407,1,209>>, <<408,408,1,1>>, <<412,412,1,211>>,
       <<413,413,1,213>>, <<415,415,1,214>>, <<416,420,2,1>>, <<422,422,1,218>>, <<423,423,1,1>>,
       <<425,425,1,218>>, <<428,428,1,1>>, <<430,430,1,218>>, <<431,431,1,1>>, <<433,434,1,217>>,
       <<435,437,2,1>>, <<439,439,1,219>>, <<440,440,1,1>>, <<444,444,1,1>>, <<452,452,1,2>>,
       <<453,453,1,1>>, <<455,455,1,2>>, <<456,456,1,1>>, <<458,458,1,2>>, <<459,475,2,1>>,
       <<478,494,2,1>>, <<497,497,1,2>>, <<498,500,2,1>>, <<502,502,1,-97>>, <<503,503,1,-56>>,
       <<504,542,2,1>>, <<544,544,1,-130>>, <<546,562,2,1>>, <<570,570,1,10795>>, <<571,571,1,1>>,
       <<573,573,1,-163>>, <<574,574,1,10792>>, <<577,577,1,1>>, <<579,579,1,-195>>, <<580,580,1,69>>,
       <<581,581,1,71>>, <<582,590,2,1>>, <<880,882,2,1>>, <<886,886,1,1>>, <<895,895,1,116>>,
       <<902,902,1,38>>, <<904,906,1,37>>, <<908,908,1,64>>, <<910,911,1,63>>, <<913,929,1,32>>,
       <<931,939,1,32>>, <<975,975,1,8>>, <<984,1006,2,1>>, <<1012,1012,1,-60>>, <<1015,1015,1,1>>,
       <<1017,1017,1,-7>>, <<1018,1018,1,1>>, <<1021,1023,1,-130>>, <<1024,1039,1,80>>, <<1040,1071,1,32>>,
       <<1120,1152,2,1>>, <<1162,1214,2,1>>, <<1216,1216,1,15>>, <<1217,1229,2,1>>, <<1232,1326,2,1>>,
       <<1329,1366,1,48>>, <<4256,4293,1,7264>>, <<4295,4295,1,7264>>, <<4301,4301,1,7264>>, <<5024,5103,1,38864>>,
       <<5104,5109,1,8>>, <<7312,7354,1,-3008>>, <<7357,7359,1,-3008>>, <<7680,7828,2,1>>, <<7838,7838,1,-7615>>,
       <<7840,7934,2,1>>, <<7944,7951,1,-8>>, <<7960,7965,1,-8>>, <<7976,7983,1,-8>>, <<7992,7999,1,-8>>,
       <<8008,8013,1,-8>>, <<8025,8031,2,-8>>, <<8040,8047,1,-8>>, <<8072,8079,1,-8>>, <<8088,8095,1,-8>>,
       <<8104,8111,1,-8>>, <<8120,8121,1,-8>>, <<8122,8123,1,-74>>, <<8124,8124,1,-9>>, <<8136,8139,1,-86>>,
       <<8140,8140,1,-9>>, <<8152,8153,1,-8>>, <<8154,8155,1,-100>>, <<8168,8169,1,-8>>, <<8170,8171,1,-112>>,
       <<8172,8172,1,-7>>, <<8184,8185,1,-128>>, <<8186,8187,1,-126>>, <<8188,8188,1,-9>>, <<8486,8486,1,-7517>>,
       <<8490,8490,1,-8383>>, <<8491,8491,1,-8262>>, <<8498,8498,1,28>>, <<8544,8559,1,16>>, <<8579,8579,1,1>>,
       <<9398,9423,1,26>>, <<11264,11311,1,48>>, <<11360,11360,1,1>>, <<11362,11362,1,-10743>>, <<11363,11363,1,-3814>>,
       <<11364,11364,1,-10727>>, <<11367,11371,2,1>>, <<11373,11373,1,-10780>>, <<11374,11374,1,-10749>>, <<11375,11375,1,-10783>>,
       <<11376,11376,1,-10782>>, <<11378,11378,1,1>>, <<11381,11381,1,1>>, <<11390,11391,1,-10815>>, <<11392,11490,2,1>>,
       <<11499,11501,2,1>>, <<11506,11506,1,1>>, <<42560,42604,2,1>>, <<42624,42650,2,1>>, <<42786,42798,2,1>>,
       <<42802,42862,2,1>>, <<42873,42875,2,1>>, <<42877,42877,1,-35332>>, <<42878,42886,2,1>>, <<42891,42891,1,1>>,
       <<42893,42893,1,-42280>>, <<42896,42898,2,1>>, <<42902,42920,2,1>>, <<42922,42922,1,-42308>>, <<42923,42923,1,-42319>>,
       <<42924,42924,1,-42315>>, <<42925,42925,1,-42305>>, <<42926,42926,1,-42308>>, <<42928,42928,1,-42258>>, <<42929,42929,1,-42282>>,
       <<42930,42930,1,-42261>>, <<42931,42931,1,928>>, <<42932,42946,2,1>>, <<42948,42948,1,-48>>, <<42949,42949,1,-42307>>,
       <<42950,42950,1,-35384>>, <<42951,42953,2,1>>, <<42960,42960,1,1>>, <<42966,42968,2,1>>, <<42997,42997,1,1>>,
       <<65313,65338,1,32>>, <<66560,66599,1,40>>, <<66736,66771,1,40>>, <<66928,66938,1,39>>, <<66940,66954,1,39>>,
       <<66956,66962,1,39>>, <<66964,66965,1,39>>, <<68736,68786,1,64>>, <<71840,71871,1,32>>, <<93760,93791,1,32>>,
       <<125184,125217,1,34>> >>

\* the characters with the property Cased, and with Case_Ignorable
CasedRanges ==
    << <<65,90>>, <<97,122>>, <<170,170>>, <<181,181>>, <<186,186>>, <<192,214>>,
       <<216,246>>, <<248,442>>, <<444,447>>, <<452,659>>, <<661,696>>, <<704,705>>,
       <<736,740>>, <<837,837>>, <<880,883>>, <<886,887>>, <<890,893>>, <<895,895>>,
       <<902,902>>, <<904,906>>, <<908,908>>, <<910,929>>, <<931,1013>>, <<1015,1153>>,
       <<1162,1327>>, <<1329,1366>>, <<1376,1416>>, <<4256,4293>>, <<4295,4295>>, <<4301,4301>>,
       <<4304,4346>>, <<4349,4351>>, <<5024,5109>>, <<5112,5117>>, <<7296,7304>>, <<7312,7354>>,
       <<7357,7359>>, <<7424,7615>>, <<7680,7957>>, <<7960,7965>>, <<7968,8005>>, <<8008,8013>>,
       <<8016,8023>>, <<8025,8025>>, <<8027,8027>>, <<8029,8029>>, <<8031,8061>>, <<8064,8116>>,
       <<8118,8124>>, <<8126,8126>>, <<8130,8132>>, <<8134,8140>>, <<8144,8147>>, <<8150,8155>>,
       <<8160,8172>>, <<8178,8180>>, <<8182,8188>>, <<8305,8305>>, <<8319,8319>>, <<8336,8348>>,
       <<8450,8450>>, <<8455,8455>>, <<8458,8467>>, <<8469,8469>>, <<8473,8477>>, <<8484,8484>>,
       <<8486,8486>>, <<8488,8488>>, <<8490,8493>>, <<8495,8500>>, <<8505,8505>>, <<8508,8511>>,
       <<8517,8521>>, <<8526,8526>>, <<8544,8575>>, <<8579,8580>>, <<9398,9449>>, <<11264,11492>>,
       <<11499,11502>>, <<11506,11507>>, <<11520,11557>>, <<11559,11559>>, <<11565,11565>>, <<42560,42605>>,
       <<42624,42653>>, <<42786,42887>>, <<42891,42894>>, <<42896,42954>>, <<42960,42961>>, <<42963,42963>>,
       <<42965,42969>>, <<42997,42998>>, <<43000,43002>>, <<43824,43866>>, <<43868,43880>>, <<43888,43967>>,
       <<64256,64262>>, <<64275,64279>>, <<65313,65338>>, <<65345,65370>>, <<66560,66639>>, <<66736,66771>>,
       <<66776,66811>>, <<66928,66938>>, <<66940,66954>>, <<66956,66962>>, <<66964,66965>>, <<66967,66977>>,
       <<66979,66993>>, <<66995,67001>>, <<67003,67004>>, <<67456,67456>>, <<67459,67461>>, <<67463,67504>>,
       <<67506,67514>>, <<68736,68786>>, <<68800,68850>>, <<71840,71903>>, <<93760,93823>>, <<119808,119892>>,
       <<119894,119964>>, <<119966,119967>>, <<119970,119970>>, <<119973,119974>>, <<119977,119980>>, <<119982,119993>>,
       <<119995,119995>>, <<119997,120003>>, <<120005,120069>>, <<120071,120074>>, <<120077,120084>>, <<120086,120092>>,
       <<120094,120121>>, <<120123,120126>>, <<120128,120132>>, <<120134,120134>>, <<120138,120144>>, <<120146,120485>>,
       <<120488,120512>>, <<120514,120538>>, <<120540,120570>>, <<120572,120596>>, <<120598,120628>>, <<120630,120654>>,
       <<120656,120686>>, <<120688,120712>>, <<120714,120744>>, <<120746,120770>>, <<120772,120779>>, <<122624,122633>>,
       <<122635,122654>>, <<125184,125251>>, <<127280,127305>>, <<127312,127337>>, <<127344,127369>> >>

CaseIgnorableRanges ==
    << <<39,39>>, <<46,46>>, <<58,58>>, <<94,94>>, <<96,96>>, <<168,168>>,
       <<173,173>>, <<175,175>>, <<180,180>>, <<183,184>>, <<688,879>>, <<884,885>>,
       <<890,890>>, <<900,901>>, <<903,903>>, <<1155,1161>>, <<1369,1369>>, <<1375,1375>>,
       <<1425,1469>>, <<1471,1471>>, <<1473,1474>>, <<1476,1477>>, <<1479,1479>>, <<1524,1524>>,
       <<1536,1541>>, <<1552,1562>>, <<1564,1564>>, <<1600,1600>>, <<1611,1631>>, <<1648,1648>>,
       <<1750,1757>>, <<1759,1768>>, <<1770,1773>>, <<1807,1807>>, <<1809,1809>>, <<1840,1866>>,
       <<1958,1968>>, <<2027,2037>>, <<2042,2042>>, <<2045,2045>>, <<2070,2093>>, <<2137,2139>>,
       <<2184,2184>>, <<2192,2193>>, <<2200,2207>>, <<2249,2306>>, <<2362,2362>>, <<2364,2364>>,
       <<2369,2376>>, <<2381,2381>>, <<2385,2391>>, <<2402,2403>>, <<2417,2417>>, <<2433,2433>>,
       <<2492,2492>>, <<2497,2500>>, <<2509,2509>>, <<2530,2531>>, <<2558,2558>>, <<2561,2562>>,
       <<2620,2620>>, <<2625,2626>>, <<2631,2632>>, <<2635,2637>>, <<2641,2641>>, <<2672,2673>>,
       <<2677,2677>>, <<2689,2690>>, <<2748,2748>>, <<2753,2757>>, <<2759,2760>>, <<2765,2765>>,
       <<2786,2787>>, <<2810,2815>>, <<2817,2817>>, <<2876,2876>>, <<2879,2879>>, <<2881,2884>>,
       <<2893,2893>>, <<2901,2902>>, <<2914,2915>>, <<2946,2946>>, <<3008,3008>>, <<3021,3021>>,
       <<3072,3072>>, <<3076,3076>>, <<3132,3132>>, <<3134,3136>>, <<3142,3144>>, <<3146,3149>>,
       <<3157,3158>>, <<3170,3171>>, <<3201,3201>>, <<3260,3260>>, <<3263,3263>>, <<3270,3270>>,
       <<3276,3277>>, <<3298,3299>>, <<3328,3329>>, <<3387,3388>>, <<3393,3396>>, <<3405,3405>>,
       <<3426,3427>>, <<3457,3457>>, <<3530,3530>>, <<3538,3540>>, <<3542,3542>>, <<3633,3633>>,
       <<3636,3642>>, <<3654,3662>>, <<3761,3761>>, <<3764,3772>>, <<3782,3782>>, <<3784,3789>>,
       <<3864,3865>>, <<3893,3893>>, <<3895,3895>>, <<3897,3897>>, <<3953,3966>>, <<3968,3972>>,
       <<3974,3975>>, <<3981,3991>>, <<3993,4028>>, <<4038,4038>>, <<4141,4144>>, <<4146,4151>>,
       <<4153,4154>>, <<4157,4158>>, <<4184,4185>>, <<4190,4192>>, <<4209,4212>>, <<4226,4226>>,
       <<4229,4230>>, <<4237,4237>>, <<4253,4253>>, <<4348,4348>>, <<4957,4959>>, <<5906,5908>>,
       <<5938,5939>>, <<5970,5971>>, <<6002,6003>>, <<6068,6069>>, <<6071,6077>>, <<6086,6086>>,
       <<6089,6099>>, <<6103,6103>>, <<6109,6109>>, <<6155,6159>>, <<6211,6211>>, <<6277,6278>>,
       <<6313,6313>>, <<6432,6434>>, <<6439,6440>>, <<6450,6450>>, <<6457,6459>>, <<6679,6680>>,
       <<6683,6683>>, <<6742,6742>>, <<6744,6750>>, <<6752,6752>>, <<6754,6754>>, <<6757,6764>>,
       <<6771,6780>>, <<6783,6783>>, <<6823,6823>>, <<6832,6862>>, <<6912,6915>>, <<6964,6964>>,
       <<6966,6970>>, <<6972,6972>>, <<6978,6978>>, <<7019,7027>>, <<7040,7041>>, <<7074,7077>>,
       <<7080,7081>>, <<7083,7085>>, <<7142,7142>>, <<7144,7145>>, <<7149,7149>>, <<7151,7153>>,
       <<7212,7219>>, <<7222,7223>>, <<7288,7293>>, <<7376,7378>>, <<7380,7392>>, <<7394,7400>>,
       <<7405,7405>>, <<7412,7412>>, <<7416,7417>>, <<7468,7530>>, <<7544,7544>>, <<7579,7679>>,
       <<8125,8125>>, <<8127,8129>>, <<8141,8143>>, <<8157,8159>>, <<8173,8175>>, <<8189,8190>>,
       <<8203,8207>>, <<8216,8217>>, <<8228,8228>>, <<8231,8231>>, <<8234,8238>>, <<8288,8292>>,
       <<8294,8303>>, <<8305,8305>>, <<8319,8319>>, <<8336,8348>>, <<8400,8432>>, <<11388,11389>>,
       <<11503,11505>>, <<11631,11631>>, <<11647,11647>>, <<11744,11775>>, <<11823,11823>>, <<12293,12293>>,
       <<12330,12333>>, <<12337,12341>>, <<12347,12347>>, <<12441,12446>>, <<12540,12542>>, <<40981,40981>>,
       <<42232,42237>>, <<42508,42508>>, <<42607,42610>>, <<42612,42621>>, <<42623,42623>>, <<42652,42655>>,
       <<42736,42737>>, <<42752,42785>>, <<42864,42864>>, <<42888,42890>>, <<42994,42996>>, <<43000,43001>>,
       <<43010,43010>>, <<43014,43014>>, <<43019,43019>>, <<43045,43046>>, <<43052,43052>>, <<43204,43205>>,
       <<43232,43249>>, <<43263,43263>>, <<43302,43309>>, <<43335,43345>>, <<43392,43394>>, <<43443,43443>>,
       <<43446,43449>>, <<43452,43453>>, <<43471,43471>>, <<43493,43494>>, <<43561,43566>>, <<43569,43570>>,
       <<43573,43574>>, <<43587,43587>>, <<43596,43596>>, <<43632,43632>>, <<43644,43644>>, <<43696,43696>>,
       <<43698,43700>>, <<43703,43704>>, <<43710,43711>>, <<43713,43713>>, <<43741,43741>>, <<43756,43757>>,
       <<43763,43764>>, <<43766,43766>>, <<43867,43871>>, <<43881,43883>>, <<44005,44005>>, <<44008,44008>>,
       <<44013,44013>>, <<64286,64286>>, <<64434,64450>>, <<65024,65039>>, <<65043,65043>>, <<65056,65071>>,
       <<65106,65106>>, <<65109,65109>>, <<65279,65279>>, <<65287,65287>>, <<65294,65294>>, <<65306,65306>>,
       <<65342,65342>>, <<65344,65344>>, <<65392,65392>>, <<65438,65439>>, <<65507,65507>>, <<65529,65531>>,
       <<66045,66045>>, <<66272,66272>>, <<66422,66426>>, <<67456,67461>>, <<67463,67504>>, <<67506,67514>>,
       <<68097,68099>>, <<68101,68102>>, <<68108,68111>>, <<68152,68154>>, <<68159,68159>>, <<68325,68326>>,
       <<68900,68903>>, <<69291,69292>>, <<69446,69456>>, <<69506,69509>>, <<69633,69633>>, <<69688,69702>>,
       <<69744,69744>>, <<69747,69748>>, <<69759,69761>>, <<69811,69814>>, <<69817,69818>>, <<69821,69821>>,
       <<69826,69826>>, <<69837,69837>>, <<69888,69890>>, <<69927,69931>>, <<69933,69940>>, <<70003,70003>>,
       <<70016,70017>>, <<70070,70078>>, <<70089,70092>>, <<70095,70095>>, <<70191,70193>>, <<70196,70196>>,
       <<70198,70199>>, <<70206,70206>>, <<70367,70367>>, <<70371,70378>>, <<70400,70401>>, <<70459,70460>>,
       <<70464,70464>>, <<70502,70508>>, <<70512,70516>>, <<70712,70719>>, <<70722,70724>>, <<70726,70726>>,
       <<70750,70750>>, <<70835,70840>>, <<70842,70842>>, <<70847,70848>>, <<70850,70851>>, <<71090,71093>>,
       <<71100,71101>>, <<71103,71104>>, <<71132,71133>>, <<71219,71226>>, <<71229,71229>>, <<71231,71232>>,
       <<71339,71339>>, <<71341,71341>>, <<71344,71349>>, <<71351,71351>>, <<71453,71455>>, <<71458,71461>>,
       <<71463,71467>>, <<71727,71735>>, <<71737,71738>>, <<71995,71996>>, <<71998,71998>>, <<72003,72003>>,
       <<72148,72151>>, <<72154,72155>>, <<72160,72160>>, <<72193,72202>>, <<72243,72248>>, <<72251,72254>>,
       <<72263,72263>>, <<72273,72278>>, <<72281,72283>>, <<72330,72342>>, <<72344,72345>>, <<72752,72758>>,
       <<72760,72765>>, <<72767,72767>>, <<72850,72871>>, <<72874,72880>>, <<72882,72883>>, <<72885,72886>>,
       <<73009,73014>>, <<73018,73018>>, <<73020,73021>>, <<73023,73029>>, <<73031,73031>>, <<73104,73105>>,
       <<73109,73109>>, <<73111,73111>>, <<73459,73460>>, <<78896,78904>>, <<92912,92916>>, <<92976,92982>>,
       <<92992,92995>>, <<94031,94031>>, <<94095,94111>>, <<94176,94177>>, <<94179,94180>>, <<110576,110579>>,
       <<110581,110587>>, <<110589,110590>>, <<113821,113822>>, <<113824,113827>>, <<118528,118573>>, <<118576,118598>>,
       <<119143,119145>>, <<119155,119170>>, <<119173,119179>>, <<119210,119213>>, <<119362,119364>>, <<121344,121398>>,
       <<121403,121452>>, <<121461,121461>>, <<121476,121476>>, <<121499,121503>>, <<121505,121519>>, <<122880,122886>>,
       <<122888,122904>>, <<122907,122913>>, <<122915,122916>>, <<122918,122922>>, <<123184,123197>>, <<123566,123566>>,
       <<123628,123631>>, <<125136,125142>>, <<125252,125259>>, <<127995,127999>>, <<917505,917505>>, <<917536,917631>>,
       <<917760,917999>> >>

Cased(c) == InRanges(c, CasedRanges)
CaseIgnorable(c) == InRanges(c, CaseIgnorableRanges)

\* the lower case of one character (_PyUnicode_ToLowerFull): one character,
\* or two for U+0130 (capital I with dot above): "i" and U+0307
LowerChar(c) ==
    IF c < 128 THEN << IF 65 <= c /\ c <= 90 THEN c + 32 ELSE c >>
    ELSE IF c = 304 THEN <<105, 775>>
    ELSE LET hits == {i \in 1..Len(LowerRanges) :
                        /\ LowerRanges[i][1] <= c
                        /\ c <= LowerRanges[i][2]
                        /\ (c - LowerRanges[i][1]) % LowerRanges[i][3] = 0}
         IN IF hits = {} THEN <<c>>
            ELSE << c + LowerRanges[CHOOSE i \in hits : TRUE][4] >>

\* handle_capital_sigma: the capital sigma (U+03A3) at s[i] ends a word: a
\* cased character stands before it and none after it, characters that are
\* Case_Ignorable left aside
FinalSigma(s, i) ==
    LET before == {j \in 1..(i - 1) : ~CaseIgnorable(s[j])}
        after == {j \in (i + 1)..Len(s) : ~CaseIgnorable(s[j])}
    IN /\ before # {}
       /\ Cased(s[CHOOSE j \in before : \A k \in before : k <= j])
       /\ \/ after = {}
          \/ ~Cased(s[CHOOSE j \in after : \A k \in after : j <= k])

\* str.lower(): character by character, the capital sigma by its place
\* (U+03C2 at the end of a word, U+03C3 elsewhere)
Lower(s) ==
    IF \A i \in 1..Len(s) : s[i] < 128
    THEN [i \in 1..Len(s) |-> IF 65 <= s[i] /\ s[i] <= 90 THEN s[i] + 32 ELSE s[i]]
    ELSE Concat([i \in 1..Len(s) |->
                    IF s[i] = 931 THEN << IF FinalSigma(s, i) THEN 962 ELSE 963 >>
                    ELSE LowerChar(s[i])])

\* sub in s
IsSubstring(sub, s) ==
    \E i \in 0..(Len(s) - Len(sub)) :
        \A j \in 1..Len(sub) : s[i + j] = sub[j]

----------------------------------------------------------------------------
(* utils.format_error_message *)

StrConnection == Text("connection")
StrTimeout == Text("timeout")
Str404 == Text("404")
Str401 == Text("401")
Str403 == Text("403")

\* what every text of a handler starts with
StrError == Text("Error: ")

MsgCannotConnect ==
    Text("Error: Cannot connect to LMStudio. Please make sure LMStudio is running and the server is started.")
MsgTimedOut ==
    Text("Error: Request timed out. The model might be taking too long to respond.")
MsgModelNotFound ==
    Text("Error: Model not found. Please check your model selection.")
MsgAuthFailed ==
    Text("Error: Authentication failed. Please check your API settings.")

\* The argument is an exception; str(error) is its message.
format_error_message(error) ==
    LET error_str == Lower(error.msg) IN
    IF IsSubstring(StrConnection, error_str) THEN MsgCannotConnect
    ELSE IF IsSubstring(StrTimeout, error_str) THEN MsgTimedOut
    ELSE IF IsSubstring(Str404, error_str) THEN MsgModelNotFound
    ELSE IF IsSubstring(Str401, error_str) \/ IsSubstring(Str403, error_str) THEN MsgAuthFailed
    ELSE StrError \o error.msg

----------------------------------------------------------------------------
(* Exceptions the environment can raise *)

ErrConnection ==
    [kind |-> "APIConnectionError", base |-> "Exception",
     msg |-> Text("Connection error.")]
ErrOther ==
    [kind |-> "RuntimeError", base |-> "Exception", msg |-> Text("boom")]
ErrSink ==
    [kind |-> "StreamlitAPIException", base |-> "Exception", msg |-> Text("gone")]

\* Streamlit's script-control exception (StopException, RerunException): a
\* BaseException raised by the next call on an element once the user has
\* asked to stop or to rerun the script
ErrStop ==
    [kind |-> "StopException", base |-> "BaseException", msg |-> <<>>]

\* what an oracle call can raise
OracleErrors == {ErrConnection, ErrOther}
\* what a write to the status text or the progress bar can raise
SinkErrors == {ErrSink}

----------------------------------------------------------------------------
(* ContentPipeline.__init__, _setup_llm, _setup_pipeline *)

\* Python's None
None == [none |-> TRUE]

\* config.lmstudio_config.timeout (seconds)
LMStudioTimeout == 60

\* the defaults of config.lmstudio_config; a temperature is written in tenths
DefaultModel == "local-model"
DefaultBaseUrl == Text("http://localhost:1234")
DefaultTemperature == 7

\* another address, model and temperature the user may have set in the
\* sidebar
OtherBaseUrl == Text("http://gpu:1234")
OtherModel == "m1"
OtherTemperature == 12

\* st.session_state as the page finds it after setup_page: base_url, model
\* and temperature are set (SessionStateManager.initialize, the widgets of
\* the sidebar); "provider" may never have been set
NoProviderSession ==
    [has_provider |-> FALSE, provider |-> "", openai_api_key |-> "",
     base_url |-> DefaultBaseUrl, model |-> DefaultModel, temperature |-> DefaultTemperature]
LMStudioSession ==
    [has_provider |-> TRUE, provider |-> "lmstudio", openai_api_key |-> "",
     base_url |-> DefaultBaseUrl, model |-> DefaultModel, temperature |-> DefaultTemperature]
Sessions == {NoProviderSession, LMStudioSession}

\* a session of the hosted provider, with its key
OpenAISession ==
    [has_provider |-> TRUE, provider |-> "openai", openai_api_key |-> "sk-1",
     base_url |-> DefaultBaseUrl, model |-> DefaultModel, temperature |-> DefaultTemperature]

\* a session in which the user has changed the settings of the sidebar
TunedSession ==
    [has_provider |-> TRUE, provider |-> "lmstudio", openai_api_key |-> "",
     base_url |-> OtherBaseUrl, model |-> OtherModel, temperature |-> OtherTemperature]

ProviderSessions == Sessions \cup {OpenAISession, TunedSession}

\* f"{base_url}/v1"
ApiUrl(base_url) == base_url \o Text("/v1")

\* self.llm after _setup_llm: base_url, model and temperature are read from
\* the session; reading st.session_state.provider raises when the key is
\* absent, the handler reports it and self.llm stays None.
SetupLlm(session) ==
    LET base_url == session.base_url
        model == session.model
        temperature == session.temperature
    IN IF ~session.has_provider THEN None
       ELSE IF session.provider = "openai" /\ session.openai_api_key # ""
       THEN [api_key |-> session.openai_api_key, model |-> model, temperature |-> temperature]
       ELSE [base_url |-> ApiUrl(base_url), api_key |-> "lm-studio",
             model |-> model, temperature |-> temperature, timeout |-> LMStudioTimeout]

Lit(t) == <<"lit", t>>
Var(n) == <<"var", n>>

blog_prompt ==
    [input_variables |-> <<"topic", "tone", "length">>,
     template |-> << Lit("Write a "), Var("length"), Lit(" blog post about \""),
                     Var("topic"), Lit("\" in a "), Var("tone"),
                     Lit(" tone. Structure the post with: - An engaging introduction - Main content with key points - A compelling conclusion Make it informative and well-structured.") >>]

summary_prompt ==
    [input_variables |-> <<"blog_post">>,
     template |-> << Lit("Create a concise summary of the following blog post in 2-3 sentences. Focus on the main points and key takeaways. Blog Post: "),
                     Var("blog_post"), Lit(" Summary:") >>]

keywords_prompt ==
    [input_variables |-> <<"blog_post">>,
     template |-> << Lit("Extract 8-12 relevant SEO keywords from the following blog post. Focus on terms that would help people find this content. Format as a comma-separated list. Blog Post: "),
                     Var("blog_post"), Lit(" SEO Keywords:") >>]

social_prompt ==
    [input_variables |-> <<"blog_post", "summary">>,
     template |-> << Lit("Create social media posts to promote this blog post: Blog Summary: "),
                     Var("summary"),
                     Lit(" Create: 1. A Twitter/X post (under 280 characters) with relevant hashtags 2. A LinkedIn post (more professional, 2-3 sentences) 3. A Facebook post (engaging, with a call to action) Social Media Posts:") >>]

LLMChain(llm, prompt, output_key) ==
    [llm |-> llm, prompt |-> prompt, output_key |-> output_key]

\* self.pipeline after _setup_pipeline
SetupPipelineReordered(llm) ==
    IF llm = None THEN None
    ELSE [chains |-> << LLMChain(llm, blog_prompt, "blog_post"),
                        LLMChain(llm, keywords_prompt, "keywords"),
                        LLMChain(llm, summary_prompt, "summary"),
                        LLMChain(llm, social_prompt, "social_posts") >>,
          input_variables |-> <<"topic", "tone", "length">>,
          output_variables |-> <<"blog_post", "summary", "keywords", "social_posts">>]
SetupPipeline(llm) ==
    IF llm = None THEN None
    ELSE [chains |-> << LLMChain(llm, blog_prompt, "blog_post"),
                        LLMChain(llm, summary_prompt, "summary"),
                        LLMChain(llm, keywords_prompt, "keywords"),
                        LLMChain(llm, social_prompt, "social_posts") >>,
          input_variables |-> <<"topic", "tone", "length">>,
          output_variables |-> <<"blog_post", "summary", "keywords", "social_posts">>]

\* ContentPipeline(): the pipeline attribute of the new object
ContentPipeline(session) == SetupPipeline(SetupLlm(session))

\* the number of chains run_pipeline invokes
NumSteps == 4
\* the keys run_pipeline stores the four outputs under, in step order
ResultKeys == <<"blog_post", "summary", "keywords", "social_posts">>
OutputKeys == {ResultKeys[i] : i \in 1..NumSteps}

----------------------------------------------------------------------------
(* LLMChain.invoke as run_pipeline uses it *)

SeqToSet(s) == {s[i] : i \in 1..Len(s)}

\* the prompt text the chain sends to the model: the template with every
\* placeholder replaced by the value given for it
Render(prompt, inputs) ==
    [i \in 1..Len(prompt.template) |->
        IF prompt.template[i][1] = "var"
        THEN inputs[prompt.template[i][2]]
        ELSE <<prompt.template[i][2]>>]

\* rendered prompt contains the text t
Contains(rendered, t) == \E i \in 1..Len(rendered) : rendered[i] = t

\* Chain.invoke validates its inputs before anything is sent
MissingInputKeys(chain, inputs) == SeqToSet(chain.prompt.input_variables) \ DOMAIN inputs

ErrMissingInputs ==
    [kind |-> "ValueError", base |-> "Exception",
     msg |-> Text("Missing some input keys")]
\* str(KeyError(key)) is the quoted key
ErrKeyError(key) ==
    [kind |-> "KeyError", base |-> "Exception",
     msg |-> Text("'") \o Text(key) \o Text("'")]

----------------------------------------------------------------------------
(* ContentPipeline.run_pipeline *)

\* outcome of an oracle call
NoError == [kind |-> "", base |-> "", msg |-> <<>>]
Pending == [status |-> "pending", text |-> <<>>, error |-> NoError]
Ok(t) == [status |-> "ok", text |-> t, error |-> NoError]
Failed(e) == [status |-> "error", text |-> <<>>, error |-> e]

\* writes to the two Streamlit elements
StatusEvent(t) == [kind |-> "text", text |-> t, value |-> 0]
ProgressEvent(n) == [kind |-> "progress", text |-> "", value |-> n]

StepStatusText ==
    << "Step 1/4: Generating blog post...",
       "Step 2/4: Creating summary...",
       "Step 3/4: Extracting SEO keywords...",
       "Step 4/4: Generating social media posts..." >>
StepProgress == <<25, 50, 75, 90>>

\* `result` is a local of the call: every run has a dict of its own
SharedFrame(r) == 1
Frame(r) == r

\* result = {}
SeededResult(a) == [topic |-> a.topic, tone |-> a.tone, length |-> a.length]
FreshResult(a) == EmptyMap

\* the keys of `result` the invoke of step k reads
StepReads(k) ==
    CASE k = 0 -> {}
      [] k = 1 -> {"blog_post"}
      [] k = 2 -> {"blog_post"}
      [] OTHER -> {"blog_post", "summary"}

\* the dict handed to chains[k].invoke
StepInputsWrong(k, a, res) ==
    CASE k = 0 -> [topic |-> a.topic, tone |-> a.tone, length |-> a.length]
      [] k = 1 -> [blog_post |-> res["blog_post"]]
      [] k = 2 -> [blog_post |-> res["summary"]]
      [] OTHER -> [blog_post |-> res["blog_post"], summary |-> res["keywords"]]
StepInputs(k, a, res) ==
    CASE k = 0 -> [topic |-> a.topic, tone |-> a.tone, length |-> a.length]
      [] k = 1 -> [blog_post |-> res["blog_post"]]
      [] k = 2 -> [blog_post |-> res["blog_post"]]
      [] OTHER -> [blog_post |-> res["blog_post"], summary |-> res["summary"]]

\* what the status updates before step k append to the log
StepEvents(k, a) ==
    (IF a.status_text THEN <<StatusEvent(StepStatusText[k + 1])>> ELSE <<>>)
    \o (IF a.progress_bar THEN <<ProgressEvent(StepProgress[k + 1])>> ELSE <<>>)

\* except Exception: what the handler of the try block catches
CatchesNarrow(e) == e.kind = "APIConnectionError"
Catches(e) == e.base = "Exception"

\* the except branch: the dict returned for exception e; res is the local
\* `result` at that moment, which the handler does not use
ErrorResultPartial(e, res) == Put(res, "error", format_error_message(e))
ErrorResult(e, res) == [error |-> format_error_message(e)]

NotInitialized == [error |-> Text("Pipeline not initialized")]

\* what run_pipeline writes to the elements before it returns for want of a
\* pipeline: the test of self.pipeline is its first statement
NotInitializedEventsStepOne(a) ==
    (IF a.status_text THEN <<StatusEvent(StepStatusText[1])>> ELSE <<>>)
    \o (IF a.progress_bar THEN <<ProgressEvent(StepProgress[1])>> ELSE <<>>)
NotInitializedEvents(a) == <<>>

\* the page code after run_pipeline returned res (the page passes both elements)
AfterReturnAlways(a, res) ==
    IF a.status_text /\ a.progress_bar
    THEN <<ProgressEvent(100), StatusEvent("Pipeline completed successfully!")>>
    ELSE <<>>
AfterReturn(a, res) ==
    IF a.status_text /\ a.progress_bar /\ "error" \notin DOMAIN res
    THEN <<ProgressEvent(100), StatusEvent("Pipeline completed successfully!")>>
    ELSE <<>>

\* the page code before it calls run_pipeline
BeforeCall(a) ==
    IF a.status_text /\ a.progress_bar
    THEN <<StatusEvent("Initializing pipeline..."), ProgressEvent(10)>>
    ELSE <<>>

\* self.pipeline after a step has stored the text of its answer in
\* `result`: run_pipeline assigns to no attribute of self
SelfPipelineKeepsLast(p, text) ==
    [chains |-> p.chains, input_variables |-> p.input_variables,
     output_variables |-> p.output_variables, last_output |-> text]
SelfPipeline(p, text) == p

\* run_pipeline returns res, after writing `events` to the elements
Return(r, events, res) ==
    /\ ret' = [ret EXCEPT ![r] = res]
    /\ pc' = [pc EXCEPT ![r] = "done"]
    /\ sinkLog' = [sinkLog EXCEPT ![r] =
            @ \o events \o (IF stop[r] > 0 THEN <<>> ELSE AfterReturn(args[r], res))]

NoExc == [origin |-> "", step |-> 0 - 1, error |-> NoError]

\* exception e is raised inside the try block, after `events` were written:
\* the handler returns the error dict, or the exception leaves run_pipeline
Except(r, events, origin, e, res) ==
    /\ exc' = [exc EXCEPT ![r] = [origin |-> origin, step |-> step[r], error |-> e]]
    /\ IF Catches(e)
       THEN Return(r, events, ErrorResult(e, res))
       ELSE /\ pc' = [pc EXCEPT ![r] = "raised"]
            /\ sinkLog' = [sinkLog EXCEPT ![r] = @ \o events]
            /\ ret' = ret

\* the oracle that may answer anything, or fail, on every call
FreeOracle == [kind |-> "free", fail_step |-> NumSteps, error |-> NoError]

\* Stub oracles, pure functions of the rendered prompt: the answer to a
\* prompt p is the text <<"gen", p>>, different for different prompts; a
\* stub raises its error for the prompts of one step (of none when
\* fail_step = NumSteps).
StubOracles ==
    {[kind |-> "stub", fail_step |-> k, error |-> ErrOther] : k \in 0..NumSteps}

PromptOfStep == <<blog_prompt, summary_prompt, keywords_prompt, social_prompt>>

\* the step a rendered prompt belongs to, read off its first literal piece
StepOfPrompt(p) ==
    CHOOSE k \in 0..(NumSteps - 1) : p[1] = <<PromptOfStep[k + 1].template[1][2]>>

StubAnswer(o, p) ==
    IF StepOfPrompt(p) = o.fail_step THEN Failed(o.error) ELSE Ok(<<"gen", p>>)

InitRuns ==
    /\ pc = [r \in Runs |-> "idle"]
    /\ step = [r \in Runs |-> 0]
    /\ args = [r \in Runs |-> EmptyMap]
    /\ pipeline = [r \in Runs |-> None]
    /\ result = [r \in Runs |-> EmptyMap]
    /\ calls = [r \in Runs |-> <<>>]
    /\ sinkLog = [r \in Runs |-> <<>>]
    /\ ret = [r \in Runs |-> EmptyMap]
    /\ exc = [r \in Runs |-> NoExc]
    /\ stop = [r \in Runs |-> 0]
    /\ reports = <<>>

\* the chat page has not been opened
InitSession ==
    /\ session_state = EmptyMap
    /\ ui_pc = "idle"
    /\ script_runs = 0
    /\ conn_test = None
    /\ request = None
    /\ app_messages = <<>>
    /\ app_pc = "idle"

\* one session, any oracle behaviour
Init ==
    /\ InitRuns
    /\ InitSession
    /\ oracle = FreeOracle
    /\ active = {1}

\* every session, against a stub oracle
InitStub ==
    /\ InitRuns
    /\ InitSession
    /\ oracle \in StubOracles
    /\ active = Runs

\* two sessions, any oracle behaviour
InitPair ==
    /\ InitRuns
    /\ InitSession
    /\ oracle = FreeOracle
    /\ active = {1, 2}

\* A click on the page in a session whose state is one of `sessions`:
\* ContentPipeline() is built from the session and run_pipeline is entered;
\* without a pipeline it returns at once.
CallWith(r, sessions) ==
    /\ pc[r] = "idle"
    /\ r \in active
    /\ \E topic \in Topics, tone \in Tones, length \in Lengths,
          sinks \in BOOLEAN, session \in sessions :
        LET a == [topic |-> topic, tone |-> tone, length |-> length,
                  status_text |-> sinks, progress_bar |-> sinks]
            p == ContentPipeline(session)
        IN /\ args' = [args EXCEPT ![r] = a]
           /\ pipeline' = [pipeline EXCEPT ![r] = p]
           /\ IF p = None
              THEN /\ ret' = [ret EXCEPT ![r] = NotInitialized]
                   /\ pc' = [pc EXCEPT ![r] = "done"]
                   /\ sinkLog' = [sinkLog EXCEPT ![r] =
                            BeforeCall(a) \o NotInitializedEvents(a)
                            \o AfterReturn(a, NotInitialized)]
              ELSE /\ ret' = ret
                   /\ pc' = [pc EXCEPT ![r] = "ready"]
                   /\ sinkLog' = [sinkLog EXCEPT ![r] = BeforeCall(a)]
    /\ step' = [step EXCEPT ![r] = 0]
    /\ UNCHANGED <<result, calls, exc, oracle, active, stop, reports, chatVars, appVars>>

\* a click in a session of the local provider, or with no provider set
Call(r) == CallWith(r, Sessions)

\* a click in a session of any provider
CallAny(r) == CallWith(r, ProviderSessions)

\* The status updates of step k, then chains[k].invoke: the prompt is
\* rendered and sent.  A missing key of `result` or of the chain's inputs
\* raises before anything is sent.
BeginStep(r) ==
    /\ pc[r] = "ready"
    /\ LET k == step[r]
           f == Frame(r)
           res == IF k = 0 THEN FreshResult(args[r]) ELSE result[f]
           chain == pipeline[r].chains[k + 1]
       IN /\ result' = [result EXCEPT ![f] = res]
          /\ IF stop[r] > 0 /\ (args[r].status_text \/ args[r].progress_bar)
             THEN /\ Except(r, <<>>, "stop", ErrStop, res)
                  /\ UNCHANGED <<calls>>
             ELSE
             IF ~(StepReads(k) \subseteq DOMAIN res)
             THEN /\ Except(r, StepEvents(k, args[r]), "result",
                            ErrKeyError(IF "blog_post" \in DOMAIN res
                                        THEN "summary" ELSE "blog_post"), res)
                  /\ UNCHANGED <<calls>>
             ELSE LET inputs == StepInputs(k, args[r], res) IN
                  IF MissingInputKeys(chain, inputs) # {}
                  THEN /\ Except(r, StepEvents(k, args[r]), "chain", ErrMissingInputs, res)
                       /\ UNCHANGED <<calls>>
                  ELSE /\ calls' = [calls EXCEPT ![r] =
                              Append(@, [step |-> k, inputs |-> inputs,
                                         prompt |-> Render(chain.prompt, inputs),
                                         outcome |-> Pending])]
                       /\ pc' = [pc EXCEPT ![r] = "wait"]
                       /\ sinkLog' = [sinkLog EXCEPT ![r] = @ \o StepEvents(k, args[r])]
                       /\ UNCHANGED <<ret, exc>>
    /\ UNCHANGED <<step, args, pipeline, oracle, active, stop, reports, chatVars, appVars>>

\* A write to the status text or to the progress bar raises.  The progress
\* bar is written after the status text.
SinkFail(r) ==
    /\ pc[r] = "ready"
    /\ stop[r] = 0
    /\ \E which \in {"status_text", "progress_bar"}, e \in SinkErrors :
        /\ args[r][which]
        /\ Except(r, IF which = "progress_bar" /\ args[r].status_text
                     THEN <<StatusEvent(StepStatusText[step[r] + 1])>> ELSE <<>>,
                  "sink", e,
                  IF step[r] = 0 THEN EmptyMap ELSE result[Frame(r)])
    /\ UNCHANGED <<step, args, pipeline, result, calls, oracle, active, stop, reports, chatVars, appVars>>

\* what the oracle may do with the call in flight of run r
Answers(r) ==
    LET prompt == calls[r][Len(calls[r])].prompt IN
    IF oracle.kind = "free"
    THEN {Ok(t) : t \in Texts} \cup {Failed(e) : e \in OracleErrors}
    ELSE {StubAnswer(oracle, prompt)}

\* chains[k].invoke returns: its dict holds the inputs and the text under
\* the chain's output key; the text is stored in `result`; after the last
\* step `result` is returned.
OracleReturn(r) ==
    /\ pc[r] = "wait"
    /\ \E out \in Answers(r) :
        /\ out.status = "ok"
        /\ LET k == step[r]
               f == Frame(r)
               n == Len(calls[r])
               chain == pipeline[r].chains[k + 1]
               partial_result == Put(calls[r][n].inputs, chain.output_key, out.text)
               key == ResultKeys[k + 1]
           IN /\ calls' = [calls EXCEPT ![r][n].outcome = out]
              /\ IF key \notin DOMAIN partial_result
                 THEN /\ Except(r, <<>>, "result", ErrKeyError(key), result[f])
                      /\ UNCHANGED <<result, step>>
                 ELSE LET res == Put(result[f], key, partial_result[key]) IN
                      /\ result' = [result EXCEPT ![f] = res]
                      /\ exc' = exc
                      /\ IF k + 1 = NumSteps
                         THEN /\ Return(r, <<>>, res)
                              /\ UNCHANGED step
                         ELSE /\ step' = [step EXCEPT ![r] = k + 1]
                              /\ pc' = [pc EXCEPT ![r] = "ready"]
                              /\ UNCHANGED <<ret, sinkLog>>
        /\ pipeline' = [pipeline EXCEPT ![r] = SelfPipeline(@, out.text)]
    /\ UNCHANGED <<args, oracle, active, stop, reports, chatVars, appVars>>

\* a failed call treated as an empty answer: the run goes on
OracleFailContinue(r) ==
    /\ pc[r] = "wait"
    /\ \E out \in Answers(r) :
        /\ out.status = "error"
        /\ LET k == step[r]
               f == Frame(r)
               res == Put(result[f], ResultKeys[k + 1], <<>>)
           IN /\ calls' = [calls EXCEPT ![r][Len(calls[r])].outcome = out]
              /\ result' = [result EXCEPT ![f] = res]
              /\ exc' = exc
              /\ IF k + 1 = NumSteps
                 THEN /\ Return(r, <<>>, res)
                      /\ UNCHANGED step
                 ELSE /\ step' = [step EXCEPT ![r] = k + 1]
                      /\ pc' = [pc EXCEPT ![r] = "ready"]
                      /\ UNCHANGED <<ret, sinkLog>>
    /\ UNCHANGED <<args, pipeline, oracle, active, stop, reports, chatVars, appVars>>

\* a failed call issued once more before giving up
OracleFailRetry(r) ==
    /\ pc[r] = "wait"
    /\ \E out \in Answers(r) :
        /\ out.status = "error"
        /\ calls' = [calls EXCEPT ![r][Len(calls[r])].outcome = out]
        /\ IF Len(calls[r]) = step[r] + 1
           THEN /\ pc' = [pc EXCEPT ![r] = "ready"]
                /\ UNCHANGED <<ret, sinkLog, exc>>
           ELSE Except(r, <<>>, "oracle", out.error, result[Frame(r)])
    /\ UNCHANGED <<step, args, pipeline, result, oracle, active, stop, reports, chatVars, appVars>>

\* chains[k].invoke raises: the except branch logs and returns the error dict
OracleFail(r) ==
    /\ pc[r] = "wait"
    /\ \E out \in Answers(r) :
        /\ out.status = "error"
        /\ calls' = [calls EXCEPT ![r][Len(calls[r])].outcome = out]
        /\ Except(r, <<>>, "oracle", out.error, result[Frame(r)])
    /\ UNCHANGED <<step, args, pipeline, result, oracle, active, stop, reports, chatVars, appVars>>

\* The user stops the script (or touches a widget, which asks for a rerun)
\* while chains[k].invoke is waiting for the model.  Streamlit only records
\* the request: the script thread serves it at its next call on an element,
\* and nothing interrupts the request to the model.
Cancel(r) ==
    /\ pc[r] = "wait"
    /\ stop[r] = 0
    /\ stop' = [stop EXCEPT ![r] = Len(calls[r])]
    /\ UNCHANGED <<pc, step, args, pipeline, result, calls, sinkLog, ret, exc, oracle, active,
                   reports, chatVars, appVars>>

Next ==
    \E r \in Runs :
        \/ Call(r)
        \/ BeginStep(r)
        \/ SinkFail(r)
        \/ OracleReturn(r)
        \/ OracleFail(r)

\* one session against the unconstrained oracle
Spec == Init /\ [][Next]_vars

\* interleaved sessions against a stub oracle
SpecStub == InitStub /\ [][Next]_vars

\* two interleaved sessions against the unconstrained oracle
SpecPair == InitPair /\ [][Next]_vars

NextPage ==
    \E r \in Runs :
        \/ CallAny(r)
        \/ BeginStep(r)
        \/ SinkFail(r)
        \/ OracleReturn(r)
        \/ OracleFail(r)
        \/ Cancel(r)

\* one session of any provider, whose user may stop the script
SpecPage == Init /\ [][NextPage]_vars

----------------------------------------------------------------------------
(* How failures of a call to the model are reported: utils.format_error_message
   (the except branches of run_pipeline and of ChatbotCore.get_response), and
   the handlers of ChatbotApp.get_response and LMStudioLLM._generate in app.py *)

\* What ChatOpenAI raises, with the cause of each failure.  The messages are
\* those of the openai package: "Connection error." for a connection that
\* cannot be made, "Request timed out." for an elapsed timeout, and
\* "Error code: <status>" for a response whose status is not 200.
ErrTimeout ==
    [kind |-> "APITimeoutError", base |-> "Exception", msg |-> Text("Request timed out.")]
ErrStatus(code) ==
    [kind |-> "APIStatusError", base |-> "Exception", msg |-> Text("Error code: ") \o code]

StatusCodes == { Text("400"), Text("401"), Text("403"), Text("404"),
                 Text("429"), Text("500"), Text("503") }

Failure(cause, classes, error, status_code) ==
    [cause |-> cause, classes |-> classes, error |-> error, status_code |-> status_code]

OpenAIFailures ==
    { Failure("connection", {"APIConnectionError"}, ErrConnection, <<>>),
      Failure("timeout", {"APIConnectionError", "APITimeoutError"}, ErrTimeout, <<>>),
      Failure("other", {}, ErrOther, <<>>) }
    \cup { Failure("status", {"APIStatusError"}, ErrStatus(c), c) : c \in StatusCodes }

\* What requests.post gives app.py: an exception of the requests package
\* (ConnectTimeout derives from both ConnectionError and Timeout: the
\* connection could not be made in time), or a response whose status is not
\* 200, with its body.
ReqConnectionError ==
    [kind |-> "ConnectionError", base |-> "Exception", msg |-> Text("Max retries exceeded (Connection refused)")]
ReqConnectTimeout ==
    [kind |-> "ConnectTimeout", base |-> "Exception", msg |-> Text("Connection to localhost timed out. (connect timeout=60)")]
ReqReadTimeout ==
    [kind |-> "ReadTimeout", base |-> "Exception", msg |-> Text("Read timed out. (read timeout=60)")]
ReqJSONError ==
    [kind |-> "JSONDecodeError", base |-> "Exception", msg |-> Text("Expecting value: line 1 column 1 (char 0)")]

RequestsFailures ==
    { Failure("connection", {"ConnectionError"}, ReqConnectionError, <<>>),
      Failure("connection", {"ConnectionError", "Timeout"}, ReqConnectTimeout, <<>>),
      Failure("timeout", {"Timeout"}, ReqReadTimeout, <<>>),
      Failure("other", {}, ReqJSONError, <<>>) }
    \cup { Failure("status", {}, NoError, c) : c \in StatusCodes }

MsgCannotConnectGenerate ==
    Text("Error: Cannot connect to LMStudio. Please make sure LMStudio is running on localhost:1234")

StrApiStatus == Text("Error: API returned status ")

\* the body of a response whose status is not 200
ResponseText == Text("bad")

\* the text the handlers of app.py return for failure f; cannot_connect is
\* the text of the handler of ConnectionError
AppErrorText(f, cannot_connect) ==
    IF f.cause = "status"
    THEN StrApiStatus \o f.status_code \o Text(" - ") \o ResponseText
    ELSE IF "ConnectionError" \in f.classes THEN cannot_connect
    ELSE IF "Timeout" \in f.classes THEN MsgTimedOut
    ELSE StrError \o f.error.msg

Report(handler, f, text) == [handler |-> handler, failure |-> f, text |-> text]

\* the except branch of ChatbotCore.get_response and of run_pipeline
FormatError ==
    /\ Len(reports) < MaxReports
    /\ \E f \in OpenAIFailures :
        reports' = Append(reports, Report("format_error_message", f, format_error_message(f.error)))
    /\ UNCHANGED <<pipelineVars, chatVars, appVars>>

\* ChatbotApp.get_response when the request fails
AppGetResponse ==
    /\ Len(reports) < MaxReports
    /\ \E f \in RequestsFailures :
        reports' = Append(reports, Report("get_response", f, AppErrorText(f, MsgCannotConnect)))
    /\ UNCHANGED <<pipelineVars, chatVars, appVars>>

\* LMStudioLLM._generate when the request fails
AppGenerate ==
    /\ Len(reports) < MaxReports
    /\ \E f \in RequestsFailures :
        reports' = Append(reports, Report("_generate", f, AppErrorText(f, MsgCannotConnectGenerate)))
    /\ UNCHANGED <<pipelineVars, chatVars, appVars>>

NextErrors == FormatError \/ AppGetResponse \/ AppGenerate

\* failures of calls to the model, reported one after the other
SpecErrors == Init /\ [][NextErrors]_vars

----------------------------------------------------------------------------
(* The chat page: ui.py (SessionStateManager, SidebarComponents,
   ChatInterface), chatbot.py (ChatbotCore) and utils.ConnectionManager.

   The marks that open a connection status are written by their code
   points: U+2705 (connected), U+26A0 U+FE0F (warning), U+274C (failure),
   U+2753 (not checked).  Temperatures are written in tenths. *)

MarkOk == <<9989>>
MarkWarn == <<9888, 65039>>
MarkFail == <<10060>>
MarkUnknown == <<10067>>

DefaultSystemMessage == "You are a helpful AI assistant. Be concise, friendly, and informative."
FallbackModels == <<"local-model">>

\* SessionStateManager.initialize: the dict `defaults`
Defaults ==
    [messages |-> <<>>,
     model |-> DefaultModel,
     temperature |-> DefaultTemperature,
     system_message |-> DefaultSystemMessage,
     base_url |-> DefaultBaseUrl,
     available_models |-> FallbackModels,
     connection_status |-> MarkUnknown \o Text(" Not checked"),
     enable_streaming |-> TRUE]

DefaultKeys == DOMAIN Defaults

\* SessionStateManager.initialize: every default is stored under its key
\* unless the key is in the session already
SessionInitializeOverwrite(ss) ==
    [k \in (DOMAIN ss) \cup DefaultKeys |-> IF k \in DefaultKeys THEN Defaults[k] ELSE ss[k]]
SessionInitialize(ss) ==
    [k \in (DOMAIN ss) \cup DefaultKeys |-> IF k \in DOMAIN ss THEN ss[k] ELSE Defaults[k]]

\* values left in a session by earlier runs of the application, none of
\* them a default
PriorSession ==
    [messages |-> << [role |-> "user", content |-> Text("hi")],
                     [role |-> "assistant", content |-> Text("hello")] >>,
     model |-> OtherModel,
     temperature |-> OtherTemperature,
     system_message |-> "Be brief.",
     base_url |-> OtherBaseUrl,
     available_models |-> <<"m1", "m2">>,
     connection_status |-> MarkOk \o Text(" Connected to LMStudio"),
     enable_streaming |-> FALSE]

\* the session as the chat page may find it: any of the keys may be there
PriorSessions ==
    {[k \in K |-> PriorSession[k]] : K \in SUBSET DefaultKeys}

\* what the user may type in the widgets of the sidebar; the last address
\* has no scheme
UnsentBaseUrl == Text("localhost:1234/") \o MarkOk
BaseUrls == {DefaultBaseUrl, OtherBaseUrl, UnsentBaseUrl}
Temperatures == {DefaultTemperature, OtherTemperature}
SystemMessages == {DefaultSystemMessage, "Be brief."}

\* dict.get(k, d)
DictGet(m, k, d) == IF k \in DOMAIN m THEN m[k] ELSE d

\* SessionStateManager.get_config
GetConfig(ss) ==
    [base_url |-> ss["base_url"], model |-> ss["model"],
     temperature |-> ss["temperature"], system_message |-> ss["system_message"]]

\* ChatbotCore._setup_llm: the arguments of ChatOpenAI
ChatSetupLlm(config, ss) ==
    [base_url |-> ApiUrl(DictGet(config, "base_url", DictGet(ss, "base_url", DefaultBaseUrl))),
     api_key |-> "lm-studio",
     model |-> DictGet(config, "model", DictGet(ss, "model", DefaultModel)),
     temperature |-> DictGet(config, "temperature", DictGet(ss, "temperature", DefaultTemperature)),
     streaming |-> DictGet(ss, "enable_streaming", TRUE),
     timeout |-> LMStudioTimeout]

\* ChatbotCore._setup_memory: the messages of the session, as chat memory
MemoryFrom(ss) ==
    LET kept == SelectSeq(DictGet(ss, "messages", <<>>),
                          LAMBDA m : m.role \in {"user", "assistant"})
    IN [i \in 1..Len(kept) |->
            [type |-> IF kept[i].role = "user" THEN "human" ELSE "ai",
             content |-> kept[i].content]]

\* ChatbotCore._setup_chain: the system message of the prompt
ChainSystemMessage(config, ss) ==
    LET m == DictGet(config, "system_message",
                     DictGet(ss, "system_message", DefaultSystemMessage))
    IN IF m = "" THEN "I am a helpful AI assistant." ELSE m

\* ChatbotCore(config): llm_inits and chain_inits count the ChatOpenAI
\* objects and the chains the object has built
ChatbotCore(config, ss) ==
    [config |-> config,
     llm |-> ChatSetupLlm(config, ss),
     memory |-> MemoryFrom(ss),
     system_message |-> ChainSystemMessage(config, ss),
     llm_inits |-> 1,
     chain_inits |-> 1]

\* dict.update
DictUpdate(m, new) ==
    [k \in (DOMAIN m) \cup (DOMAIN new) |-> IF k \in DOMAIN new THEN new[k] ELSE m[k]]

\* ChatbotCore.update_config
UpdateConfigReloadsMemory(cb, new_config, ss) ==
    LET config == DictUpdate(cb.config, new_config) IN
    [cb EXCEPT !.config = config,
               !.llm = ChatSetupLlm(config, ss),
               !.memory = MemoryFrom(ss),
               !.system_message = ChainSystemMessage(config, ss),
               !.llm_inits = @ + 1,
               !.chain_inits = @ + 1]
UpdateConfig(cb, new_config, ss) ==
    LET config == DictUpdate(cb.config, new_config) IN
    [cb EXCEPT !.config = config,
               !.llm = ChatSetupLlm(config, ss),
               !.system_message = ChainSystemMessage(config, ss),
               !.llm_inits = @ + 1,
               !.chain_inits = @ + 1]

\* config != getattr(self.chatbot, 'last_config', {}): get_config returns a
\* dict of four keys, which no empty dict equals
LastConfigDiffers(cb, config) ==
    IF "last_config" \in DOMAIN cb THEN config # cb.last_config ELSE TRUE

\* self.chatbot.last_config = config
SetLastConfig(cb, config) ==
    [k \in (DOMAIN cb) \cup {"last_config"} |-> IF k = "last_config" THEN config ELSE cb[k]]

\* ConnectionManager: what the server may answer to GET {base_url}/v1/models
\* when the request reaches it.  The body of an answer is not JSON, or JSON
\* that is not an object, or an object; an entry of "data" has an "id" or
\* not.
ModelsBodies ==
    { [json |-> FALSE],
      [json |-> TRUE, object |-> FALSE],
      [json |-> TRUE, object |-> TRUE, value |-> EmptyMap],
      [json |-> TRUE, object |-> TRUE, value |-> [data |-> <<>>]],
      [json |-> TRUE, object |-> TRUE, value |-> [data |-> << [id |-> "m1"] >>]],
      [json |-> TRUE, object |-> TRUE, value |-> [data |-> << [id |-> "m1"], [id |-> "m2"] >>]],
      [json |-> TRUE, object |-> TRUE, value |-> [data |-> << [id |-> "m1"], [name |-> "m2"] >>]] }

ModelsStatusCodes == {200, 404, 500}

Raised(classes, error) == [raised |-> TRUE, classes |-> classes, error |-> error]

ModelsOutcomes ==
    { Raised(f.classes, f.error) : f \in {g \in RequestsFailures : g.cause \in {"connection", "timeout"}} }
    \cup { [raised |-> FALSE, status_code |-> 200, body |-> b] : b \in ModelsBodies }
    \cup { [raised |-> FALSE, status_code |-> c, body |-> [json |-> FALSE]] :
                c \in ModelsStatusCodes \ {200} }

(* requests.get: how the address is prepared (PreparedRequest.prepare_url
   with urllib3.util.parse_url, then prepare_auth) and how the adapter is
   found (Session.get_adapter).  The address is any text.  The tables are
   those of Python 3.11 (Unicode 14.0.0) and of the idna package 3.4. *)

Digits == 48..57
HexDigits == Digits \cup (65..70) \cup (97..102)
AsciiLetters == (65..90) \cup (97..122)
HexUpper == Text("0123456789ABCDEF")
HexLower == Text("0123456789abcdef")

\* the unreserved characters of RFC 3986, and the sets of characters
\* urllib3 leaves as they are in each part of an address
UnreservedChars == AsciiLetters \cup Digits \cup Chars("._-~")
UserinfoChars == UnreservedChars \cup Chars("!$&'()*+,;=") \cup Chars(":")
PathChars == UserinfoChars \cup Chars("@/")
QueryChars == PathChars \cup Chars("?")

\* str.lstrip(): the white space of str.isspace()
SpaceRanges ==
    << <<9,13>>, <<28,32>>, <<133,133>>, <<160,160>>, <<5760,5760>>, <<8192,8202>>,
       <<8232,8233>>, <<8239,8239>>, <<8287,8287>>, <<12288,12288>> >>

Lstrip(s) ==
    IF \A i \in 1..Len(s) : InRanges(s[i], SpaceRanges) THEN <<>>
    ELSE SubSeq(s, CHOOSE i \in 1..Len(s) :
                        /\ ~InRanges(s[i], SpaceRanges)
                        /\ \A j \in 1..(i - 1) : InRanges(s[j], SpaceRanges),
                Len(s))

\* s.split(sep) and sep.join(parts) for a separator of one character
RECURSIVE Split(_, _)
Split(s, sep) ==
    IF Find(s, {sep}) = 0 THEN <<s>>
    ELSE <<SubSeq(s, 1, Find(s, {sep}) - 1)>> \o Split(From(s, Find(s, {sep})), sep)

RECURSIVE Join(_, _)
Join(parts, sep) ==
    IF parts = <<>> THEN <<>>
    ELSE IF Len(parts) = 1 THEN parts[1]
    ELSE Join(SubSeq(parts, 1, Len(parts) \div 2), sep) \o <<sep>>
            \o Join(SubSeq(parts, Len(parts) \div 2 + 1, Len(parts)), sep)

\* int(s) for a text of ASCII digits
RECURSIVE Number(_)
Number(s) ==
    IF s = <<>> THEN 0
    ELSE 10 * Number(SubSeq(s, 1, Len(s) - 1)) + (s[Len(s)] - 48)

\* s.lstrip("0")
RECURSIVE LstripZeros(_)
LstripZeros(s) == IF s # <<>> /\ s[1] = 48 THEN LstripZeros(Tail(s)) ELSE s

\* the bytes of c in UTF-8
Utf8(c) ==
    IF c < 128 THEN <<c>>
    ELSE IF c < 2048 THEN <<192 + (c \div 64), 128 + (c % 64)>>
    ELSE IF c < 65536
    THEN <<224 + (c \div 4096), 128 + ((c \div 64) % 64), 128 + (c % 64)>>
    ELSE <<240 + (c \div 262144), 128 + ((c \div 4096) % 64),
           128 + ((c \div 64) % 64), 128 + (c % 64)>>

\* "%XX" for every byte of c in UTF-8
PercentEncoded(c) ==
    Concat([k \in 1..Len(Utf8(c)) |->
                <<37, HexUpper[(Utf8(c)[k] \div 16) + 1], HexUpper[(Utf8(c)[k] % 16) + 1]>>])

\* "%" followed by two hexadecimal digits stands at s[i] (PERCENT_RE)
EscapeAt(s, i) ==
    /\ i >= 1
    /\ i + 2 <= Len(s)
    /\ s[i] = 37
    /\ s[i + 1] \in HexDigits
    /\ s[i + 2] \in HexDigits

\* PERCENT_RE.subn(upper): the digits of the escapes in upper case
EscapesUpper(s) ==
    [i \in 1..Len(s) |->
        IF (EscapeAt(s, i - 1) \/ EscapeAt(s, i - 2)) /\ s[i] \in 97..102
        THEN s[i] - 32 ELSE s[i]]

\* urllib3 _encode_invalid_chars: every character that is not allowed is
\* percent-encoded; "%" is kept when every "%" of the component starts an
\* escape
EncodeInvalidChars(component, allowed) ==
    Concat([i \in 1..Len(component) |->
        IF \/ component[i] = 37 /\ \A j \in 1..Len(component) :
                                        component[j] = 37 => EscapeAt(component, j)
           \/ component[i] \in allowed
        THEN <<EscapesUpper(component)[i]>>
        ELSE PercentEncoded(component[i])])

\* the loop of _remove_path_dot_segments
RECURSIVE KeptSegments(_, _)
KeptSegments(segments, output) ==
    IF segments = <<>> THEN output
    ELSE KeptSegments(Tail(segments),
            IF Head(segments) = Text(".") THEN output
            ELSE IF Head(segments) # Text("..") THEN Append(output, Head(segments))
            ELSE IF output # <<>> THEN SubSeq(output, 1, Len(output) - 1)
            ELSE output)

WithEnds(path, output) ==
    (IF StartsWith(path, Text("/")) /\ (output = <<>> \/ output[1] # <<>>)
     THEN << <<>> >> ELSE <<>>)
    \o output
    \o (IF EndsWith(path, Text("/.")) \/ EndsWith(path, Text("/..")) THEN << <<>> >> ELSE <<>>)

\* urllib3 _remove_path_dot_segments
RemovePathDotSegments(path) ==
    Join(WithEnds(path, KeptSegments(Split(path, Ord["/"]), <<>>)), Ord["/"])

\* parse_url: the scheme is what stands before the first colon when that is
\* a letter followed by letters, digits, "+" and "-" (SCHEME_RE)
UrlScheme(url) ==
    IF /\ Find(url, {Ord[":"]}) > 1
       /\ url[1] \in AsciiLetters
       /\ \A i \in 1..(Find(url, {Ord[":"]}) - 1) :
                url[i] \in AsciiLetters \cup Digits \cup Chars("+-")
    THEN SubSeq(url, 1, Find(url, {Ord[":"]}) - 1)
    ELSE <<>>

\* what follows the scheme and its colon; an address without a scheme that
\* does not start with "/" is parsed as "//" + address
AfterScheme(url, scheme) ==
    IF scheme # <<>> THEN From(url, Len(scheme) + 1)
    ELSE IF StartsWith(url, Text("/")) THEN url
    ELSE Text("//") \o url

\* URI_RE: the authority is what follows "//" up to the first "\", "/", "?"
\* or "#"
UrlAuthority(rest) ==
    IF StartsWith(rest, Text("//")) THEN Before(From(rest, 2), Chars("\\/?#")) ELSE <<>>

AfterAuthority(rest) ==
    IF StartsWith(rest, Text("//")) THEN From(rest, 2 + Len(UrlAuthority(rest))) ELSE rest

\* URI_RE: the path, the query and the fragment
UrlPath(tail) == Before(tail, Chars("?#"))
UrlQuery(tail) ==
    IF Find(tail, Chars("?#")) > 0 /\ tail[Find(tail, Chars("?#"))] = Ord["?"]
    THEN Before(From(tail, Find(tail, Chars("?#"))), Chars("#"))
    ELSE <<>>
UrlFragment(tail) ==
    IF Find(tail, Chars("#")) > 0 THEN From(tail, Find(tail, Chars("#"))) ELSE <<>>

\* authority.rpartition("@")
LastAt(authority) ==
    IF \E i \in 1..Len(authority) : authority[i] = Ord["@"]
    THEN CHOOSE i \in 1..Len(authority) :
            authority[i] = Ord["@"] /\ \A j \in (i + 1)..Len(authority) : authority[j] # Ord["@"]
    ELSE 0
UrlAuth(authority) == SubSeq(authority, 1, LastAt(authority) - 1)
UrlHostPort(authority) == From(authority, LastAt(authority))

\* _HOST_PORT_RE: the host is an address in brackets, or what stands before
\* the first colon; the port is what follows the colon after the host; "$"
\* matches before a last line feed too
UrlHost(host_port) ==
    IF StartsWith(host_port, Text("[")) /\ Find(host_port, Chars("]")) > 0
    THEN SubSeq(host_port, 1, Find(host_port, Chars("]")))
    ELSE Before(host_port, Chars(":"))
AfterHost(host_port) == From(host_port, Len(UrlHost(host_port)))
PortText(host_port) ==
    IF AfterHost(host_port) = <<>> THEN <<>>
    ELSE IF EndsWith(host_port, <<10>>)
    THEN SubSeq(AfterHost(host_port), 2, Len(AfterHost(host_port)) - 1)
    ELSE Tail(AfterHost(host_port))

\* HEX_PAT: one to four hexadecimal digits
IsH16(group) ==
    /\ Len(group) \in 1..4
    /\ \A i \in 1..Len(group) : group[i] \in HexDigits

\* a number of an IPv4 address: one to three digits for IPV4_PAT; the module
\* ipaddress (strict) also wants it without leading zero and at most 255
IsOctet(s, strict) ==
    /\ Len(s) \in 1..3
    /\ \A i \in 1..Len(s) : s[i] \in Digits
    /\ strict => Number(s) <= 255 /\ (Len(s) > 1 => s[1] # 48)

IsDottedQuad(parts, strict) ==
    /\ Len(parts) = 4
    /\ \A i \in 1..Len(parts) : IsOctet(parts[i], strict)

IsIpv4(s, strict) == IsDottedQuad(Split(s, Ord["."]), strict)

\* the pieces of 16 bits that groups between colons stand for (an IPv4
\* address, allowed in the last place only, stands for two); 9, more than an
\* address has, when a group is neither
PiecesOf(groups, strict, ipv4) ==
    IF \A i \in 1..Len(groups) : IsH16(groups[i]) THEN Len(groups)
    ELSE IF /\ ipv4
            /\ \A i \in 1..(Len(groups) - 1) : IsH16(groups[i])
            /\ IsIpv4(groups[Len(groups)], strict)
    THEN Len(groups) + 1
    ELSE 9

Pieces(s, strict, ipv4) ==
    IF s = <<>> THEN 0 ELSE PiecesOf(Split(s, Ord[":"]), strict, ipv4)

\* the place of the first "::", 0 when there is none
DoubleColon(s) ==
    IF \E i \in 1..(Len(s) - 1) : s[i] = Ord[":"] /\ s[i + 1] = Ord[":"]
    THEN CHOOSE i \in 1..(Len(s) - 1) :
            /\ s[i] = Ord[":"] /\ s[i + 1] = Ord[":"]
            /\ \A j \in 1..(i - 1) : ~(s[j] = Ord[":"] /\ s[j + 1] = Ord[":"])
    ELSE 0

\* IPV6_PAT, and the addresses ipaddress.IPv6Address takes (strict): eight
\* pieces, or at most seven around one "::"
IsIpv6(s, strict) ==
    IF DoubleColon(s) = 0 THEN Pieces(s, strict, TRUE) = 8
    ELSE Pieces(SubSeq(s, 1, DoubleColon(s) - 1), strict, FALSE)
            + Pieces(From(s, DoubleColon(s) + 1), strict, TRUE) <= 7

\* ZONE_ID_PAT after its "%": unreserved characters and escapes
ZoneMatches(zone) ==
    /\ zone # <<>>
    /\ \A i \in 1..Len(zone) : zone[i] \in UnreservedChars \/ EscapeAt(zone, i)

\* IPV6_ADDRZ_PAT: an IPv6 address, with or without zone, in brackets
BracketsMatch(inner) ==
    /\ IsIpv6(Before(inner, Chars("%")), FALSE)
    /\ Find(inner, Chars("%")) > 0 => ZoneMatches(From(inner, Find(inner, Chars("%"))))

\* the host of _HOST_PORT_RE.  REG_NAME_PAT: the host has none of "[", "]",
\* ":", "/", "?", "#", and "%" only in an escape
HostMatches(host) ==
    IF StartsWith(host, Text("["))
    THEN EndsWith(host, Text("]")) /\ BracketsMatch(SubSeq(host, 2, Len(host) - 1))
    ELSE \A i \in 1..Len(host) :
            /\ host[i] \notin Chars("[]:/?#")
            /\ host[i] = 37 => EscapeAt(host, i)

\* what may follow the host: nothing, a line feed, or a colon and the port
RestMatches(rest) == rest \in {<<>>, <<10>>} \/ rest[1] = Ord[":"]

\* the port of _HOST_PORT_RE: digits, at most five after the leading zeros
PortMatches(port) ==
    /\ \A i \in 1..Len(port) : port[i] \in Digits
    /\ Len(LstripZeros(port)) <= 5

\* str(int(port)), empty when there is no port
PortNumber(port) ==
    IF port = <<>> THEN <<>>
    ELSE IF LstripZeros(port) = <<>> THEN Text("0")
    ELSE LstripZeros(port)

(* unicodedata.normalize("NFC", s) *)

\* the canonical decomposition of the characters that have one (Hangul
\* syllables apart): <<character, decomposition>>
NfdTable ==
    << <<192,<<65,768>>>>, <<193,<<65,769>>>>, <<194,<<65,770>>>>, <<195,<<65,771>>>>, <<196,<<65,776>>>>,
       <<197,<<65,778>>>>, <<199,<<67,807>>>>, <<200,<<69,768>>>>, <<201,<<69,769>>>>, <<202,<<69,770>>>>,
       <<203,<<69,776>>>>, <<204,<<73,768>>>>, <<205,<<73,769>>>>, <<206,<<73,770>>>>, <<207,<<73,776>>>>,
       <<209,<<78,771>>>>, <<210,<<79,768>>>>, <<211,<<79,769>>>>, <<212,<<79,770>>>>, <<213,<<79,771>>>>,
       <<214,<<79,776>>>>, <<217,<<85,768>>>>, <<218,<<85,769>>>>, <<219,<<85,770>>>>, <<220,<<85,776>>>>,
       <<221,<<89,769>>>>, <<224,<<97,768>>>>, <<225,<<97,769>>>>, <<226,<<97,770>>>>, <<227,<<97,771>>>>,
       <<228,<<97,776>>>>, <<229,<<97,778>>>>, <<231,<<99,807>>>>, <<232,<<101,768>>>>, <<233,<<101,769>>>>,
       <<234,<<101,770>>>>, <<235,<<101,776>>>>, <<236,<<105,768>>>>, <<237,<<105,769>>>>, <<238,<<105,770>>>>,
       <<239,<<105,776>>>>, <<241,<<110,771>>>>, <<242,<<111,768>>>>, <<243,<<111,769>>>>, <<244,<<111,770>>>>,
       <<245,<<111,771>>>>, <<246,<<111,776>>>>, <<249,<<117,768>>>>, <<250,<<117,769>>>>, <<251,<<117,770>>>>,
       <<252,<<117,776>>>>, <<253,<<121,769>>>>, <<255,<<121,776>>>>, <<256,<<65,772>>>>, <<257,<<97,772>>>>,
       <<258,<<65,774>>>>, <<259,<<97,774>>>>, <<260,<<65,808>>>>, <<261,<<97,808>>>>, <<262,<<67,769>>>>,
       <<263,<<99,769>>>>, <<264,<<67,770>>>>, <<265,<<99,770>>>>, <<266,<<67,775>>>>, <<267,<<99,775>>>>,
       <<268,<<67,780>>>>, <<269,<<99,780>>>>, <<270,<<68,780>>>>, <<271,<<100,780>>>>, <<274,<<69,772>>>>,
       <<275,<<101,772>>>>, <<276,<<69,774>>>>, <<277,<<101,774>>>>, <<278,<<69,775>>>>, <<279,<<101,775>>>>,
       <<280,<<69,808>>>>, <<281,<<101,808>>>>, <<282,<<69,780>>>>, <<283,<<101,780>>>>, <<284,<<71,770>>>>,
       <<285,<<103,770>>>>, <<286,<<71,774>>>>, <<287,<<103,774>>>>, <<288,<<71,775>>>>, <<289,<<103,775>>>>,
       <<290,<<71,807>>>>, <<291,<<103,807>>>>, <<292,<<72,770>>>>, <<293,<<104,770>>>>, <<296,<<73,771>>>>,
       <<297,<<105,771>>>>, <<298,<<73,772>>>>, <<299,<<105,772>>>>, <<300,<<73,774>>>>, <<301,<<105,774>>>>,
       <<302,<<73,808>>>>, <<303,<<105,808>>>>, <<304,<<73,775>>>>, <<308,<<74,770>>>>, <<309,<<106,770>>>>,
       <<310,<<75,807>>>>, <<311,<<107,807>>>>, <<313,<<76,769>>>>, <<314,<<108,769>>>>, <<315,<<76,807>>>>,
       <<316,<<108,807>>>>, <<317,<<76,780>>>>, <<318,<<108,780>>>>, <<323,<<78,769>>>>, <<324,<<110,769>>>>,
       <<325,<<78,807>>>>, <<326,<<110,807>>>>, <<327,<<78,780>>>>, <<328,<<110,780>>>>, <<332,<<79,772>>>>,
       <<333,<<111,772>>>>, <<334,<<79,774>>>>, <<335,<<111,774>>>>, <<336,<<79,779>>>>, <<337,<<111,779>>>>,
       <<340,<<82,769>>>>, <<341,<<114,769>>>>, <<342,<<82,807>>>>, <<343,<<114,807>>>>, <<344,<<82,780>>>>,
       <<345,<<114,780>>>>, <<346,<<83,769>>>>, <<347,<<115,769>>>>, <<348,<<83,770>>>>, <<349,<<115,770>>>>,
       <<350,<<83,807>>>>, <<351,<<115,807>>>>, <<352,<<83,780>>>>, <<353,<<115,780>>>>, <<354,<<84,807>>>>,
       <<355,<<116,807>>>>, <<356,<<84,780>>>>, <<357,<<116,780>>>>, <<360,<<85,771>>>>, <<361,<<117,771>>>>,
       <<362,<<85,772>>>>, <<363,<<117,772>>>>, <<364,<<85,774>>>>, <<365,<<117,774>>>>, <<366,<<85,778>>>>,
       <<367,<<117,778>>>>, <<368,<<85,779>>>>, <<369,<<117,779>>>>, <<370,<<85,808>>>>, <<371,<<117,808>>>>,
       <<372,<<87,770>>>>, <<373,<<119,770>>>>, <<374,<<89,770>>>>, <<375,<<121,770>>>>, <<376,<<89,776>>>>,
       <<377,<<90,769>>>>, <<378,<<122,769>>>>, <<379,<<90,775>>>>, <<380,<<122,775>>>>, <<381,<<90,780>>>>,
       <<382,<<122,780>>>>, <<416,<<79,795>>>>, <<417,<<111,795>>>>, <<431,<<85,795>>>>, <<432,<<117,795>>>>,
       <<461,<<65,780>>>>, <<462,<<97,780>>>>, <<463,<<73,780>>>>, <<464,<<105,780>>>>, <<465,<<79,780>>>>,
       <<466,<<111,780>>>>, <<467,<<85,780>>>>, <<468,<<117,780>>>>, <<469,<<85,776,772>>>>, <<470,<<117,776,772>>>>,
       <<471,<<85,776,769>>>>, <<472,<<117,776,769>>>>, <<473,<<85,776,780>>>>, <<474,<<117,776,780>>>>, <<475,<<85,776,768>>>>,
       <<476,<<117,776,768>>>>, <<478,<<65,776,772>>>>, <<479,<<97,776,772>>>>, <<480,<<65,775,772>>>>, <<481,<<97,775,772>>>>,
       <<482,<<198,772>>>>, <<483,<<230,772>>>>, <<486,<<71,780>>>>, <<487,<<103,780>>>>, <<488,<<75,780>>>>,
       <<489,<<107,780>>>>, <<490,<<79,808>>>>, <<491,<<111,808>>>>, <<492,<<79,808,772>>>>, <<493,<<111,808,772>>>>,
       <<494,<<439,780>>>>, <<495,<<658,780>>>>, <<496,<<106,780>>>>, <<500,<<71,769>>>>, <<501,<<103,769>>>>,
       <<504,<<78,768>>>>, <<505,<<110,768>>>>, <<506,<<65,778,769>>>>, <<507,<<97,778,769>>>>, <<508,<<198,769>>>>,
       <<509,<<230,769>>>>, <<510,<<216,769>>>>, <<511,<<248,769>>>>, <<512,<<65,783>>>>, <<513,<<97,783>>>>,
       <<514,<<65,785>>>>, <<515,<<97,785>>>>, <<516,<<69,783>>>>, <<517,<<101,783>>>>, <<518,<<69,785>>>>,
       <<519,<<101,785>>>>, <<520,<<73,783>>>>, <<521,<<105,783>>>>, <<522,<<73,785>>>>, <<523,<<105,785>>>>,
       <<524,<<79,783>>>>, <<525,<<111,783>>>>, <<526,<<79,785>>>>, <<527,<<111,785>>>>, <<528,<<82,783>>>>,
       <<529,<<114,783>>>>, <<530,<<82,785>>>>, <<531,<<114,785>>>>, <<532,<<85,783>>>>, <<533,<<117,783>>>>,
       <<534,<<85,785>>>>, <<535,<<117,785>>>>, <<536,<<83,806>>>>, <<537,<<115,806>>>>, <<538,<<84,806>>>>,
       <<539,<<116,806>>>>, <<542,<<72,780>>>>, <<543,<<104,780>>>>, <<550,<<65,775>>>>, <<551,<<97,775>>>>,
       <<552,<<69,807>>>>, <<553,<<101,807>>>>, <<554,<<79,776,772>>>>, <<555,<<111,776,772>>>>, <<556,<<79,771,772>>>>,
       <<557,<<111,771,772>>>>, <<558,<<79,775>>>>, <<559,<<111,775>>>>, <<560,<<79,775,772>>>>, <<561,<<111,775,772>>>>,
       <<562,<<89,772>>>>, <<563,<<121,772>>>>, <<832,<<768>>>>, <<833,<<769>>>>, <<835,<<787>>>>,
       <<836,<<776,769>>>>, <<884,<<697>>>>, <<894,<<59>>>>, <<901,<<168,769>>>>, <<902,<<913,769>>>>,
       <<903,<<183>>>>, <<904,<<917,769>>>>, <<905,<<919,769>>>>, <<906,<<921,769>>>>, <<908,<<927,769>>>>,
       <<910,<<933,769>>>>, <<911,<<937,769>>>>, <<912,<<953,776,769>>>>, <<938,<<921,776>>>>, <<939,<<933,776>>>>,
       <<940,<<945,769>>>>, <<941,<<949,769>>>>, <<942,<<951,769>>>>, <<943,<<953,769>>>>, <<944,<<965,776,769>>>>,
       <<970,<<953,776>>>>, <<971,<<965,776>>>>, <<972,<<959,769>>>>, <<973,<<965,769>>>>, <<974,<<969,769>>>>,
       <<979,<<978,769>>>>, <<980,<<978,776>>>>, <<1024,<<1045,768>>>>, <<1025,<<1045,776>>>>, <<1027,<<1043,769>>>>,
       <<1031,<<1030,776>>>>, <<1036,<<1050,769>>>>, <<1037,<<1048,768>>>>, <<1038,<<1059,774>>>>, <<1049,<<1048,774>>>>,
       <<1081,<<1080,774>>>>, <<1104,<<1077,768>>>>, <<1105,<<1077,776>>>>, <<1107,<<1075,769>>>>, <<1111,<<1110,776>>>>,
       <<1116,<<1082,769>>>>, <<1117,<<1080,768>>>>, <<1118,<<1091,774>>>>, <<1142,<<1140,783>>>>, <<1143,<<1141,783>>>>,
       <<1217,<<1046,774>>>>, <<1218,<<1078,774>>>>, <<1232,<<1040,774>>>>, <<1233,<<1072,774>>>>, <<1234,<<1040,776>>>>,
       <<1235,<<1072,776>>>>, <<1238,<<1045,774>>>>, <<1239,<<1077,774>>>>, <<1242,<<1240,776>>>>, <<1243,<<1241,776>>>>,
       <<1244,<<1046,776>>>>, <<1245,<<1078,776>>>>, <<1246,<<1047,776>>>>, <<1247,<<1079,776>>>>, <<1250,<<1048,772>>>>,
       <<1251,<<1080,772>>>>, <<1252,<<1048,776>>>>, <<1253,<<1080,776>>>>, <<1254,<<1054,776>>>>, <<1255,<<1086,776>>>>,
       <<1258,<<1256,776>>>>, <<1259,<<1257,776>>>>, <<1260,<<1069,776>>>>, <<1261,<<1101,776>>>>, <<1262,<<1059,772>>>>,
       <<1263,<<1091,772>>>>, <<1264,<<1059,776>>>>, <<1265,<<1091,776>>>>, <<1266,<<1059,779>>>>, <<1267,<<1091,779>>>>,
       <<1268,<<1063,776>>>>, <<1269,<<1095,776>>>>, <<1272,<<1067,776>>>>, <<1273,<<1099,776>>>>, <<1570,<<1575,1619>>>>,
       <<1571,<<1575,1620>>>>, <<1572,<<1608,1620>>>>, <<1573,<<1575,1621>>>>, <<1574,<<1610,1620>>>>, <<1728,<<1749,1620>>>>,
       <<1730,<<1729,1620>>>>, <<1747,<<1746,1620>>>>, <<2345,<<2344,2364>>>>, <<2353,<<2352,2364>>>>, <<2356,<<2355,2364>>>>,
       <<2392,<<2325,2364>>>>, <<2393,<<2326,2364>>>>, <<2394,<<2327,2364>>>>, <<2395,<<2332,2364>>>>, <<2396,<<2337,2364>>>>,
       <<2397,<<2338,2364>>>>, <<2398,<<2347,2364>>>>, <<2399,<<2351,2364>>>>, <<2507,<<2503,2494>>>>, <<2508,<<2503,2519>>>>,
       <<2524,<<2465,2492>>>>, <<2525,<<2466,2492>>>>, <<2527,<<2479,2492>>>>, <<2611,<<2610,2620>>>>, <<2614,<<2616,2620>>>>,
       <<2649,<<2582,2620>>>>, <<2650,<<2583,2620>>>>, <<2651,<<2588,2620>>>>, <<2654,<<2603,2620>>>>, <<2888,<<2887,2902>>>>,
       <<2891,<<2887,2878>>>>, <<2892,<<2887,2903>>>>, <<2908,<<2849,2876>>>>, <<2909,<<2850,2876>>>>, <<2964,<<2962,3031>>>>,
       <<3018,<<3014,3006>>>>, <<3019,<<3015,3006>>>>, <<3020,<<3014,3031>>>>, <<3144,<<3142,3158>>>>, <<3264,<<3263,3285>>>>,
       <<3271,<<3270,3285>>>>, <<3272,<<3270,3286>>>>, <<3274,<<3270,3266>>>>, <<3275,<<3270,3266,3285>>>>, <<3402,<<3398,3390>>>>,
       <<3403,<<3399,3390>>>>, <<3404,<<3398,3415>>>>, <<3546,<<3545,3530>>>>, <<3548,<<3545,3535>>>>, <<3549,<<3545,3535,3530>>>>,
       <<3550,<<3545,3551>>>>, <<3907,<<3906,4023>>>>, <<3917,<<3916,4023>>>>, <<3922,<<3921,4023>>>>, <<3927,<<3926,4023>>>>,
       <<3932,<<3931,4023>>>>, <<3945,<<3904,4021>>>>, <<3955,<<3953,3954>>>>, <<3957,<<3953,3956>>>>, <<3958,<<4018,3968>>>>,
       <<3960,<<4019,3968>>>>, <<3969,<<3953,3968>>>>, <<3987,<<3986,4023>>>>, <<3997,<<3996,4023>>>>, <<4002,<<4001,4023>>>>,
       <<4007,<<4006,4023>>>>, <<4012,<<4011,4023>>>>, <<4025,<<3984,4021>>>>, <<4134,<<4133,4142>>>>, <<6918,<<6917,6965>>>>,
       <<6920,<<6919,6965>>>>, <<6922,<<6921,6965>>>>, <<6924,<<6923,6965>>>>, <<6926,<<6925,6965>>>>, <<6930,<<6929,6965>>>>,
       <<6971,<<6970,6965>>>>, <<6973,<<6972,6965>>>>, <<6976,<<6974,6965>>>>, <<6977,<<6975,6965>>>>, <<6979,<<6978,6965>>>>,
       <<7680,<<65,805>>>>, <<7681,<<97,805>>>>, <<7682,<<66,775>>>>, <<7683,<<98,775>>>>, <<7684,<<66,803>>>>,
       <<7685,<<98,803>>>>, <<7686,<<66,817>>>>, <<7687,<<98,817>>>>, <<7688,<<67,807,769>>>>, <<7689,<<99,807,769>>>>,
       <<7690,<<68,775>>>>, <<7691,<<100,775>>>>, <<7692,<<68,803>>>>, <<7693,<<100,803>>>>, <<7694,<<68,817>>>>,
       <<7695,<<100,817>>>>, <<7696,<<68,807>>>>, <<7697,<<100,807>>>>, <<7698,<<68,813>>>>, <<7699,<<100,813>>>>,
       <<7700,<<69,772,768>>>>, <<7701,<<101,772,768>>>>, <<7702,<<69,772,769>>>>, <<7703,<<101,772,769>>>>, <<7704,<<69,813>>>>,
       <<7705,<<101,813>>>>, <<7706,<<69,816>>>>, <<7707,<<101,816>>>>, <<7708,<<69,807,774>>>>, <<7709,<<101,807,774>>>>,
       <<7710,<<70,775>>>>, <<7711,<<102,775>>>>, <<7712,<<71,772>>>>, <<7713,<<103,772>>>>, <<7714,<<72,775>>>>,
       <<7715,<<104,775>>>>, <<7716,<<72,803>>>>, <<7717,<<104,803>>>>, <<7718,<<72,776>>>>, <<7719,<<104,776>>>>,
       <<7720,<<72,807>>>>, <<7721,<<104,807>>>>, <<7722,<<72,814>>>>, <<7723,<<104,814>>>>, <<7724,<<73,816>>>>,
       <<7725,<<105,816>>>>, <<7726,<<73,776,769>>>>, <<7727,<<105,776,769>>>>, <<7728,<<75,769>>>>, <<7729,<<107,769>>>>,
       <<7730,<<75,803>>>>, <<7731,<<107,803>>>>, <<7732,<<75,817>>>>, <<7733,<<107,817>>>>, <<7734,<<76,803>>>>,
       <<7735,<<108,803>>>>, <<7736,<<76,803,772>>>>, <<7737,<<108,803,772>>>>, <<7738,<<76,817>>>>, <<7739,<<108,817>>>>,
       <<7740,<<76,813>>>>, <<7741,<<108,813>>>>, <<7742,<<77,769>>>>, <<7743,<<109,769>>>>, <<7744,<<77,775>>>>,
       <<7745,<<109,775>>>>, <<7746,<<77,803>>>>, <<7747,<<109,803>>>>, <<7748,<<78,775>>>>, <<7749,<<110,775>>>>,
       <<7750,<<78,803>>>>, <<7751,<<110,803>>>>, <<7752,<<78,817>>>>, <<7753,<<110,817>>>>, <<7754,<<78,813>>>>,
       <<7755,<<110,813>>>>, <<7756,<<79,771,769>>>>, <<7757,<<111,771,769>>>>, <<7758,<<79,771,776>>>>, <<7759,<<111,771,776>>>>,
       <<7760,<<79,772,768>>>>, <<7761,<<111,772,768>>>>, <<7762,<<79,772,769>>>>, <<7763,<<111,772,769>>>>, <<7764,<<80,769>>>>,
       <<7765,<<112,769>>>>, <<7766,<<80,775>>>>, <<7767,<<112,775>>>>, <<7768,<<82,775>>>>, <<7769,<<114,775>>>>,
       <<7770,<<82,803>>>>, <<7771,<<114,803>>>>, <<7772,<<82,803,772>>>>, <<7773,<<114,803,772>>>>, <<7774,<<82,817>>>>,
       <<7775,<<114,817>>>>, <<7776,<<83,775>>>>, <<7777,<<115,775>>>>, <<7778,<<83,803>>>>, <<7779,<<115,803>>>>,
       <<7780,<<83,769,775>>>>, <<7781,<<115,769,775>>>>, <<7782,<<83,780,775>>>>, <<7783,<<115,780,775>>>>, <<7784,<<83,803,775>>>>,
       <<7785,<<115,803,775>>>>, <<7786,<<84,775>>>>, <<7787,<<116,775>>>>, <<7788,<<84,803>>>>, <<7789,<<116,803>>>>,
       <<7790,<<84,817>>>>, <<7791,<<116,817>>>>, <<7792,<<84,813>>>>, <<7793,<<116,813>>>>, <<7794,<<85,804>>>>,
       <<7795,<<117,804>>>>, <<7796,<<85,816>>>>, <<7797,<<117,816>>>>, <<7798,<<85,813>>>>, <<7799,<<117,813>>>>,
       <<7800,<<85,771,769>>>>, <<7801,<<117,771,769>>>>, <<7802,<<85,772,776>>>>, <<7803,<<117,772,776>>>>, <<7804,<<86,771>>>>,
       <<7805,<<118,771>>>>, <<7806,<<86,803>>>>, <<7807,<<118,803>>>>, <<7808,<<87,768>>>>, <<7809,<<119,768>>>>,
       <<7810,<<87,769>>>>, <<7811,<<119,769>>>>, <<7812,<<87,776>>>>, <<7813,<<119,776>>>>, <<7814,<<87,775>>>>,
       <<7815,<<119,775>>>>, <<7816,<<87,803>>>>, <<7817,<<119,803>>>>, <<7818,<<88,775>>>>, <<7819,<<120,775>>>>,
       <<7820,<<88,776>>>>, <<7821,<<120,776>>>>, <<7822,<<89,775>>>>, <<7823,<<121,775>>>>, <<7824,<<90,770>>>>,
       <<7825,<<122,770>>>>, <<7826,<<90,803>>>>, <<7827,<<122,803>>>>, <<7828,<<90,817>>>>, <<7829,<<122,817>>>>,
       <<7830,<<104,817>>>>, <<7831,<<116,776>>>>, <<7832,<<119,778>>>>, <<7833,<<121,778>>>>, <<7835,<<383,775>>>>,
       <<7840,<<65,803>>>>, <<7841,<<97,803>>>>, <<7842,<<65,777>>>>, <<7843,<<97,777>>>>, <<7844,<<65,770,769>>>>,
       <<7845,<<97,770,769>>>>, <<7846,<<65,770,768>>>>, <<7847,<<97,770,768>>>>, <<7848,<<65,770,777>>>>, <<7849,<<97,770,777>>>>,
       <<7850,<<65,770,771>>>>, <<7851,<<97,770,771>>>>, <<7852,<<65,803,770>>>>, <<7853,<<97,803,770>>>>, <<7854,<<65,774,769>>>>,
       <<7855,<<97,774,769>>>>, <<7856,<<65,774,768>>>>, <<7857,<<97,774,768>>>>, <<7858,<<65,774,777>>>>, <<7859,<<97,774,777>>>>,
       <<7860,<<65,774,771>>>>, <<7861,<<97,774,771>>>>, <<7862,<<65,803,774>>>>, <<7863,<<97,803,774>>>>, <<7864,<<69,803>>>>,
       <<7865,<<101,803>>>>, <<7866,<<69,777>>>>, <<7867,<<101,777>>>>, <<7868,<<69,771>>>>, <<7869,<<101,771>>>>,
       <<7870,<<69,770,769>>>>, <<7871,<<101,770,769>>>>, <<7872,<<69,770,768>>>>, <<7873,<<101,770,768>>>>, <<7874,<<69,770,777>>>>,
       <<7875,<<101,770,777>>>>, <<7876,<<69,770,771>>>>, <<7877,<<101,770,771>>>>, <<7878,<<69,803,770>>>>, <<7879,<<101,803,770>>>>,
       <<7880,<<73,777>>>>, <<7881,<<105,777>>>>, <<7882,<<73,803>>>>, <<7883,<<105,803>>>>, <<7884,<<79,803>>>>,
       <<7885,<<111,803>>>>, <<7886,<<79,777>>>>, <<7887,<<111,777>>>>, <<7888,<<79,770,769>>>>, <<7889,<<111,770,769>>>>,
       <<7890,<<79,770,768>>>>, <<7891,<<111,770,768>>>>, <<7892,<<79,770,777>>>>, <<7893,<<111,770,777>>>>, <<7894,<<79,770,771>>>>,
       <<7895,<<111,770,771>>>>, <<7896,<<79,803,770>>>>, <<7897,<<111,803,770>>>>, <<7898,<<79,795,769>>>>, <<7899,<<111,795,769>>>>,
       <<7900,<<79,795,768>>>>, <<7901,<<111,795,768>>>>, <<7902,<<79,795,777>>>>, <<7903,<<111,795,777>>>>, <<7904,<<79,795,771>>>>,
       <<7905,<<111,795,771>>>>, <<7906,<<79,795,803>>>>, <<7907,<<111,795,803>>>>, <<7908,<<85,803>>>>, <<7909,<<117,803>>>>,
       <<7910,<<85,777>>>>, <<7911,<<117,777>>>>, <<7912,<<85,795,769>>>>, <<7913,<<117,795,769>>>>, <<7914,<<85,795,768>>>>,
       <<7915,<<117,795,768>>>>, <<7916,<<85,795,777>>>>, <<7917,<<117,795,777>>>>, <<7918,<<85,795,771>>>>, <<7919,<<117,795,771>>>>,
       <<7920,<<85,795,803>>>>, <<7921,<<117,795,803>>>>, <<7922,<<89,768>>>>, <<7923,<<121,768>>>>, <<7924,<<89,803>>>>,
       <<7925,<<121,803>>>>, <<7926,<<89,777>>>>, <<7927,<<121,777>>>>, <<7928,<<89,771>>>>, <<7929,<<121,771>>>>,
       <<7936,<<945,787>>>>, <<7937,<<945,788>>>>, <<7938,<<945,787,768>>>>, <<7939,<<945,788,768>>>>, <<7940,<<945,787,769>>>>,
       <<7941,<<945,788,769>>>>, <<7942,<<945,787,834>>>>, <<7943,<<945,788,834>>>>, <<7944,<<913,787>>>>, <<7945,<<913,788>>>>,
       <<7946,<<913,787,768>>>>, <<7947,<<913,788,768>>>>, <<7948,<<913,787,769>>>>, <<7949,<<913,788,769>>>>, <<7950,<<913,787,834>>>>,
       <<7951,<<913,788,834>>>>, <<7952,<<949,787>>>>, <<7953,<<949,788>>>>, <<7954,<<949,787,768>>>>, <<7955,<<949,788,768>>>>,
       <<7956,<<949,787,769>>>>, <<7957,<<949,788,769>>>>, <<7960,<<917,787>>>>, <<7961,<<917,788>>>>, <<7962,<<917,787,768>>>>,
       <<7963,<<917,788,768>>>>, <<7964,<<917,787,769>>>>, <<7965,<<917,788,769>>>>, <<7968,<<951,787>>>>, <<7969,<<951,788>>>>,
       <<7970,<<951,787,768>>>>, <<7971,<<951,788,768>>>>, <<7972,<<951,787,769>>>>, <<7973,<<951,788,769>>>>, <<7974,<<951,787,834>>>>,
       <<7975,<<951,788,834>>>>, <<7976,<<919,787>>>>, <<7977,<<919,788>>>>, <<7978,<<919,787,768>>>>, <<7979,<<919,788,768>>>>,
       <<7980,<<919,787,769>>>>, <<7981,<<919,788,769>>>>, <<7982,<<919,787,834>>>>, <<7983,<<919,788,834>>>>, <<7984,<<953,787>>>>,
       <<7985,<<953,788>>>>, <<7986,<<953,787,768>>>>, <<7987,<<953,788,768>>>>, <<7988,<<953,787,769>>>>, <<7989,<<953,788,769>>>>,
       <<7990,<<953,787,834>>>>, <<7991,<<953,788,834>>>>, <<7992,<<921,787>>>>, <<7993,<<921,788>>>>, <<7994,<<921,787,768>>>>,
       <<7995,<<921,788,768>>>>, <<7996,<<921,787,769>>>>, <<7997,<<921,788,769>>>>, <<7998,<<921,787,834>>>>, <<7999,<<921,788,834>>>>,
       <<8000,<<959,787>>>>, <<8001,<<959,788>>>>, <<8002,<<959,787,768>>>>, <<8003,<<959,788,768>>>>, <<8004,<<959,787,769>>>>,
       <<8005,<<959,788,769>>>>, <<8008,<<927,787>>>>, <<8009,<<927,788>>>>, <<8010,<<927,787,768>>>>, <<8011,<<927,788,768>>>>,
       <<8012,<<927,787,769>>>>, <<8013,<<927,788,769>>>>, <<8016,<<965,787>>>>, <<8017,<<965,788>>>>, <<8018,<<965,787,768>>>>,
       <<8019,<<965,788,768>>>>, <<8020,<<965,787,769>>>>, <<8021,<<965,788,769>>>>, <<8022,<<965,787,834>>>>, <<8023,<<965,788,834>>>>,
       <<8025,<<933,788>>>>, <<8027,<<933,788,768>>>>, <<8029,<<933,788,769>>>>, <<8031,<<933,788,834>>>>, <<8032,<<969,787>>>>,
       <<8033,<<969,788>>>>, <<8034,<<969,787,768>>>>, <<8035,<<969,788,768>>>>, <<8036,<<969,787,769>>>>, <<8037,<<969,788,769>>>>,
       <<8038,<<969,787,834>>>>, <<8039,<<969,788,834>>>>, <<8040,<<937,787>>>>, <<8041,<<937,788>>>>, <<8042,<<937,787,768>>>>,
       <<8043,<<937,788,768>>>>, <<8044,<<937,787,769>>>>, <<8045,<<937,788,769>>>>, <<8046,<<937,787,834>>>>, <<8047,<<937,788,834>>>>,
       <<8048,<<945,768>>>>, <<8049,<<945,769>>>>, <<8050,<<949,768>>>>, <<8051,<<949,769>>>>, <<8052,<<951,768>>>>,
       <<8053,<<951,769>>>>, <<8054,<<953,768>>>>, <<8055,<<953,769>>>>, <<8056,<<959,768>>>>, <<8057,<<959,769>>>>,
       <<8058,<<965,768>>>>, <<8059,<<965,769>>>>, <<8060,<<969,768>>>>, <<8061,<<969,769>>>>, <<8064,<<945,787,837>>>>,
       <<8065,<<945,788,837>>>>, <<8066,<<945,787,768,837>>>>, <<8067,<<945,788,768,837>>>>, <<8068,<<945,787,769,837>>>>, <<8069,<<945,788,769,837>>>>,
       <<8070,<<945,787,834,837>>>>, <<8071,<<945,788,834,837>>>>, <<8072,<<913,787,837>>>>, <<8073,<<913,788,837>>>>, <<8074,<<913,787,768,837>>>>,
       <<8075,<<913,788,768,837>>>>, <<8076,<<913,787,769,837>>>>, <<8077,<<913,788,769,837>>>>, <<8078,<<913,787,834,837>>>>, <<8079,<<913,788,834,837>>>>,
       <<8080,<<951,787,837>>>>, <<8081,<<951,788,837>>>>, <<8082,<<951,787,768,837>>>>, <<8083,<<951,788,768,837>>>>, <<8084,<<951,787,769,837>>>>,
       <<8085,<<951,788,769,837>>>>, <<8086,<<951,787,834,837>>>>, <<8087,<<951,788,834,837>>>>, <<8088,<<919,787,837>>>>, <<8089,<<919,788,837>>>>,
       <<8090,<<919,787,768,837>>>>, <<8091,<<919,788,768,837>>>>, <<8092,<<919,787,769,837>>>>, <<8093,<<919,788,769,837>>>>, <<8094,<<919,787,834,837>>>>,
       <<8095,<<919,788,834,837>>>>, <<8096,<<969,787,837>>>>, <<8097,<<969,788,837>>>>, <<8098,<<969,787,768,837>>>>, <<8099,<<969,788,768,837>>>>,
       <<8100,<<969,787,769,837>>>>, <<8101,<<969,788,769,837>>>>, <<8102,<<969,787,834,837>>>>, <<8103,<<969,788,834,837>>>>, <<8104,<<937,787,837>>>>,
       <<8105,<<937,788,837>>>>, <<8106,<<937,787,768,837>>>>, <<8107,<<937,788,768,837>>>>, <<8108,<<937,787,769,837>>>>, <<8109,<<937,788,769,837>>>>,
       <<8110,<<937,787,834,837>>>>, <<8111,<<937,788,834,837>>>>, <<8112,<<945,774>>>>, <<8113,<<945,772>>>>, <<8114,<<945,768,837>>>>,
       <<8115,<<945,837>>>>, <<8116,<<945,769,837>>>>, <<8118,<<945,834>>>>, <<8119,<<945,834,837>>>>, <<8120,<<913,774>>>>,
       <<8121,<<913,772>>>>, <<8122,<<913,768>>>>, <<8123,<<913,769>>>>, <<8124,<<913,837>>>>, <<8126,<<953>>>>,
       <<8129,<<168,834>>>>, <<8130,<<951,768,837>>>>, <<8131,<<951,837>>>>, <<8132,<<951,769,837>>>>, <<8134,<<951,834>>>>,
       <<8135,<<951,834,837>>>>, <<8136,<<917,768>>>>, <<8137,<<917,769>>>>, <<8138,<<919,768>>>>, <<8139,<<919,769>>>>,
       <<8140,<<919,837>>>>, <<8141,<<8127,768>>>>, <<8142,<<8127,769>>>>, <<8143,<<8127,834>>>>, <<8144,<<953,774>>>>,
       <<8145,<<953,772>>>>, <<8146,<<953,776,768>>>>, <<8147,<<953,776,769>>>>, <<8150,<<953,834>>>>, <<8151,<<953,776,834>>>>,
       <<8152,<<921,774>>>>, <<8153,<<921,772>>>>, <<8154,<<921,768>>>>, <<8155,<<921,769>>>>, <<8157,<<8190,768>>>>,
       <<8158,<<8190,769>>>>, <<8159,<<8190,834>>>>, <<8160,<<965,774>>>>, <<8161,<<965,772>>>>, <<8162,<<965,776,768>>>>,
       <<8163,<<965,776,769>>>>, <<8164,<<961,787>>>>, <<8165,<<961,788>>>>, <<8166,<<965,834>>>>, <<8167,<<965,776,834>>>>,
       <<8168,<<933,774>>>>, <<8169,<<933,772>>>>, <<8170,<<933,768>>>>, <<8171,<<933,769>>>>, <<8172,<<929,788>>>>,
       <<8173,<<168,768>>>>, <<8174,<<168,769>>>>, <<8175,<<96>>>>, <<8178,<<969,768,837>>>>, <<8179,<<969,837>>>>,
       <<8180,<<969,769,837>>>>, <<8182,<<969,834>>>>, <<8183,<<969,834,837>>>>, <<8184,<<927,768>>>>, <<8185,<<927,769>>>>,
       <<8186,<<937,768>>>>, <<8187,<<937,769>>>>, <<8188,<<937,837>>>>, <<8189,<<180>>>>, <<8192,<<8194>>>>,
       <<8193,<<8195>>>>, <<8486,<<937>>>>, <<8490,<<75>>>>, <<8491,<<65,778>>>>, <<8602,<<8592,824>>>>,
       <<8603,<<8594,824>>>>, <<8622,<<8596,824>>>>, <<8653,<<8656,824>>>>, <<8654,<<8660,824>>>>, <<8655,<<8658,824>>>>,
       <<8708,<<8707,824>>>>, <<8713,<<8712,824>>>>, <<8716,<<8715,824>>>>, <<8740,<<8739,824>>>>, <<8742,<<8741,824>>>>,
       <<8769,<<8764,824>>>>, <<8772,<<8771,824>>>>, <<8775,<<8773,824>>>>, <<8777,<<8776,824>>>>, <<8800,<<61,824>>>>,
       <<8802,<<8801,824>>>>, <<8813,<<8781,824>>>>, <<8814,<<60,824>>>>, <<8815,<<62,824>>>>, <<8816,<<8804,824>>>>,
       <<8817,<<8805,824>>>>, <<8820,<<8818,824>>>>, <<8821,<<8819,824>>>>, <<8824,<<8822,824>>>>, <<8825,<<8823,824>>>>,
       <<8832,<<8826,824>>>>, <<8833,<<8827,824>>>>, <<8836,<<8834,824>>>>, <<8837,<<8835,824>>>>, <<8840,<<8838,824>>>>,
       <<8841,<<8839,824>>>>, <<8876,<<8866,824>>>>, <<8877,<<8872,824>>>>, <<8878,<<8873,824>>>>, <<8879,<<8875,824>>>>,
       <<8928,<<8828,824>>>>, <<8929,<<8829,824>>>>, <<8930,<<8849,824>>>>, <<8931,<<8850,824>>>>, <<8938,<<8882,824>>>>,
       <<8939,<<8883,824>>>>, <<8940,<<8884,824>>>>, <<8941,<<8885,824>>>>, <<9001,<<12296>>>>, <<9002,<<12297>>>>,
       <<10972,<<10973,824>>>>, <<12364,<<12363,12441>>>>, <<12366,<<12365,12441>>>>, <<12368,<<12367,12441>>>>, <<12370,<<12369,12441>>>>,
       <<12372,<<12371,12441>>>>, <<12374,<<12373,12441>>>>, <<12376,<<12375,12441>>>>, <<12378,<<12377,12441>>>>, <<12380,<<12379,12441>>>>,
       <<12382,<<12381,12441>>>>, <<12384,<<12383,12441>>>>, <<12386,<<12385,12441>>>>, <<12389,<<12388,12441>>>>, <<12391,<<12390,12441>>>>,
       <<12393,<<12392,12441>>>>, <<12400,<<12399,12441>>>>, <<12401,<<12399,12442>>>>, <<12403,<<12402,12441>>>>, <<12404,<<12402,12442>>>>,
       <<12406,<<12405,12441>>>>, <<12407,<<12405,12442>>>>, <<12409,<<12408,12441>>>>, <<12410,<<12408,12442>>>>, <<12412,<<12411,12441>>>>,
       <<12413,<<12411,12442>>>>, <<12436,<<12358,12441>>>>, <<12446,<<12445,12441>>>>, <<12460,<<12459,12441>>>>, <<12462,<<12461,12441>>>>,
       <<12464,<<12463,12441>>>>, <<12466,<<12465,12441>>>>, <<12468,<<12467,12441>>>>, <<12470,<<12469,12441>>>>, <<12472,<<12471,12441>>>>,
       <<12474,<<12473,12441>>>>, <<12476,<<12475,12441>>>>, <<12478,<<12477,12441>>>>, <<12480,<<12479,12441>>>>, <<12482,<<12481,12441>>>>,
       <<12485,<<12484,12441>>>>, <<12487,<<12486,12441>>>>, <<12489,<<12488,12441>>>>, <<12496,<<12495,12441>>>>, <<12497,<<12495,12442>>>>,
       <<12499,<<12498,12441>>>>, <<12500,<<12498,12442>>>>, <<12502,<<12501,12441>>>>, <<12503,<<12501,12442>>>>, <<12505,<<12504,12441>>>>,
       <<12506,<<12504,12442>>>>, <<12508,<<12507,12441>>>>, <<12509,<<12507,12442>>>>, <<12532,<<12454,12441>>>>, <<12535,<<12527,12441>>>>,
       <<12536,<<12528,12441>>>>, <<12537,<<12529,12441>>>>, <<12538,<<12530,12441>>>>, <<12542,<<12541,12441>>>>, <<63744,<<35912>>>>,
       <<63745,<<26356>>>>, <<63746,<<36554>>>>, <<63747,<<36040>>>>, <<63748,<<28369>>>>, <<63749,<<20018>>>>,
       <<63750,<<21477>>>>, <<63751,<<40860>>>>, <<63752,<<40860>>>>, <<63753,<<22865>>>>, <<63754,<<37329>>>>,
       <<63755,<<21895>>>>, <<63756,<<22856>>>>, <<63757,<<25078>>>>, <<63758,<<30313>>>>, <<63759,<<32645>>>>,
       <<63760,<<34367>>>>, <<63761,<<34746>>>>, <<63762,<<35064>>>>, <<63763,<<37007>>>>, <<63764,<<27138>>>>,
       <<63765,<<27931>>>>, <<63766,<<28889>>>>, <<63767,<<29662>>>>, <<63768,<<33853>>>>, <<63769,<<37226>>>>,
       <<63770,<<39409>>>>, <<63771,<<20098>>>>, <<63772,<<21365>>>>, <<63773,<<27396>>>>, <<63774,<<29211>>>>,
       <<63775,<<34349>>>>, <<63776,<<40478>>>>, <<63777,<<23888>>>>, <<63778,<<28651>>>>, <<63779,<<34253>>>>,
       <<63780,<<35172>>>>, <<63781,<<25289>>>>, <<63782,<<33240>>>>, <<63783,<<34847>>>>, <<63784,<<24266>>>>,
       <<63785,<<26391>>>>, <<63786,<<28010>>>>, <<63787,<<29436>>>>, <<63788,<<37070>>>>, <<63789,<<20358>>>>,
       <<63790,<<20919>>>>, <<63791,<<21214>>>>, <<63792,<<25796>>>>, <<63793,<<27347>>>>, <<63794,<<29200>>>>,
       <<63795,<<30439>>>>, <<63796,<<32769>>>>, <<63797,<<34310>>>>, <<63798,<<34396>>>>, <<63799,<<36335>>>>,
       <<63800,<<38706>>>>, <<63801,<<39791>>>>, <<63802,<<40442>>>>, <<63803,<<30860>>>>, <<63804,<<31103>>>>,
       <<63805,<<32160>>>>, <<63806,<<33737>>>>, <<63807,<<37636>>>>, <<63808,<<40575>>>>, <<63809,<<35542>>>>,
       <<63810,<<22751>>>>, <<63811,<<24324>>>>, <<63812,<<31840>>>>, <<63813,<<32894>>>>, <<63814,<<29282>>>>,
       <<63815,<<30922>>>>, <<63816,<<36034>>>>, <<63817,<<38647>>>>, <<63818,<<22744>>>>, <<63819,<<23650>>>>,
       <<63820,<<27155>>>>, <<63821,<<28122>>>>, <<63822,<<28431>>>>, <<63823,<<32047>>>>, <<63824,<<32311>>>>,
       <<63825,<<38475>>>>, <<63826,<<21202>>>>, <<63827,<<32907>>>>, <<63828,<<20956>>>>, <<63829,<<20940>>>>,
       <<63830,<<31260>>>>, <<63831,<<32190>>>>, <<63832,<<33777>>>>, <<63833,<<38517>>>>, <<63834,<<35712>>>>,
       <<63835,<<25295>>>>, <<63836,<<27138>>>>, <<63837,<<35582>>>>, <<63838,<<20025>>>>, <<63839,<<23527>>>>,
       <<63840,<<24594>>>>, <<63841,<<29575>>>>, <<63842,<<30064>>>>, <<63843,<<21271>>>>, <<63844,<<30971>>>>,
       <<63845,<<20415>>>>, <<63846,<<24489>>>>, <<63847,<<19981>>>>, <<63848,<<27852>>>>, <<63849,<<25976>>>>,
       <<63850,<<32034>>>>, <<63851,<<21443>>>>, <<63852,<<22622>>>>, <<63853,<<30465>>>>, <<63854,<<33865>>>>,
       <<63855,<<35498>>>>, <<63856,<<27578>>>>, <<63857,<<36784>>>>, <<63858,<<27784>>>>, <<63859,<<25342>>>>,
       <<63860,<<33509>>>>, <<63861,<<25504>>>>, <<63862,<<30053>>>>, <<63863,<<20142>>>>, <<63864,<<20841>>>>,
       <<63865,<<20937>>>>, <<63866,<<26753>>>>, <<63867,<<31975>>>>, <<63868,<<33391>>>>, <<63869,<<35538>>>>,
       <<63870,<<37327>>>>, <<63871,<<21237>>>>, <<63872,<<21570>>>>, <<63873,<<22899>>>>, <<63874,<<24300>>>>,
       <<63875,<<26053>>>>, <<63876,<<28670>>>>, <<63877,<<31018>>>>, <<63878,<<38317>>>>, <<63879,<<39530>>>>,
       <<63880,<<40599>>>>, <<63881,<<40654>>>>, <<63882,<<21147>>>>, <<63883,<<26310>>>>, <<63884,<<27511>>>>,
       <<63885,<<36706>>>>, <<63886,<<24180>>>>, <<63887,<<24976>>>>, <<63888,<<25088>>>>, <<63889,<<25754>>>>,
       <<63890,<<28451>>>>, <<63891,<<29001>>>>, <<63892,<<29833>>>>, <<63893,<<31178>>>>, <<63894,<<32244>>>>,
       <<63895,<<32879>>>>, <<63896,<<36646>>>>, <<63897,<<34030>>>>, <<63898,<<36899>>>>, <<63899,<<37706>>>>,
       <<63900,<<21015>>>>, <<63901,<<21155>>>>, <<63902,<<21693>>>>, <<63903,<<28872>>>>, <<63904,<<35010>>>>,
       <<63905,<<35498>>>>, <<63906,<<24265>>>>, <<63907,<<24565>>>>, <<63908,<<25467>>>>, <<63909,<<27566>>>>,
       <<63910,<<31806>>>>, <<63911,<<29557>>>>, <<63912,<<20196>>>>, <<63913,<<22265>>>>, <<63914,<<23527>>>>,
       <<63915,<<23994>>>>, <<63916,<<24604>>>>, <<63917,<<29618>>>>, <<63918,<<29801>>>>, <<63919,<<32666>>>>,
       <<63920,<<32838>>>>, <<63921,<<37428>>>>, <<63922,<<38646>>>>, <<63923,<<38728>>>>, <<63924,<<38936>>>>,
       <<63925,<<20363>>>>, <<63926,<<31150>>>>, <<63927,<<37300>>>>, <<63928,<<38584>>>>, <<63929,<<24801>>>>,
       <<63930,<<20102>>>>, <<63931,<<20698>>>>, <<63932,<<23534>>>>, <<63933,<<23615>>>>, <<63934,<<26009>>>>,
       <<63935,<<27138>>>>, <<63936,<<29134>>>>, <<63937,<<30274>>>>, <<63938,<<34044>>>>, <<63939,<<36988>>>>,
       <<63940,<<40845>>>>, <<63941,<<26248>>>>, <<63942,<<38446>>>>, <<63943,<<21129>>>>, <<63944,<<26491>>>>,
       <<63945,<<26611>>>>, <<63946,<<27969>>>>, <<63947,<<28316>>>>, <<63948,<<29705>>>>, <<63949,<<30041>>>>,
       <<63950,<<30827>>>>, <<63951,<<32016>>>>, <<63952,<<39006>>>>, <<63953,<<20845>>>>, <<63954,<<25134>>>>,
       <<63955,<<38520>>>>, <<63956,<<20523>>>>, <<63957,<<23833>>>>, <<63958,<<28138>>>>, <<63959,<<36650>>>>,
       <<63960,<<24459>>>>, <<63961,<<24900>>>>, <<63962,<<26647>>>>, <<63963,<<29575>>>>, <<63964,<<38534>>>>,
       <<63965,<<21033>>>>, <<63966,<<21519>>>>, <<63967,<<23653>>>>, <<63968,<<26131>>>>, <<63969,<<26446>>>>,
       <<63970,<<26792>>>>, <<63971,<<27877>>>>, <<63972,<<29702>>>>, <<63973,<<30178>>>>, <<63974,<<32633>>>>,
       <<63975,<<35023>>>>, <<63976,<<35041>>>>, <<63977,<<37324>>>>, <<63978,<<38626>>>>, <<63979,<<21311>>>>,
       <<63980,<<28346>>>>, <<63981,<<21533>>>>, <<63982,<<29136>>>>, <<63983,<<29848>>>>, <<63984,<<34298>>>>,
       <<63985,<<38563>>>>, <<63986,<<40023>>>>, <<63987,<<40607>>>>, <<63988,<<26519>>>>, <<63989,<<28107>>>>,
       <<63990,<<33256>>>>, <<63991,<<31435>>>>, <<63992,<<31520>>>>, <<63993,<<31890>>>>, <<63994,<<29376>>>>,
       <<63995,<<28825>>>>, <<63996,<<35672>>>>, <<63997,<<20160>>>>, <<63998,<<33590>>>>, <<63999,<<21050>>>>,
       <<64000,<<20999>>>>, <<64001,<<24230>>>>, <<64002,<<25299>>>>, <<64003,<<31958>>>>, <<64004,<<23429>>>>,
       <<64005,<<27934>>>>, <<64006,<<26292>>>>, <<64007,<<36667>>>>, <<64008,<<34892>>>>, <<64009,<<38477>>>>,
       <<64010,<<35211>>>>, <<64011,<<24275>>>>, <<64012,<<20800>>>>, <<64013,<<21952>>>>, <<64016,<<22618>>>>,
       <<64018,<<26228>>>>, <<64021,<<20958>>>>, <<64022,<<29482>>>>, <<64023,<<30410>>>>, <<64024,<<31036>>>>,
       <<64025,<<31070>>>>, <<64026,<<31077>>>>, <<64027,<<31119>>>>, <<64028,<<38742>>>>, <<64029,<<31934>>>>,
       <<64030,<<32701>>>>, <<64032,<<34322>>>>, <<64034,<<35576>>>>, <<64037,<<36920>>>>, <<64038,<<37117>>>>,
       <<64042,<<39151>>>>, <<64043,<<39164>>>>, <<64044,<<39208>>>>, <<64045,<<40372>>>>, <<64046,<<37086>>>>,
       <<64047,<<38583>>>>, <<64048,<<20398>>>>, <<64049,<<20711>>>>, <<64050,<<20813>>>>, <<64051,<<21193>>>>,
       <<64052,<<21220>>>>, <<64053,<<21329>>>>, <<64054,<<21917>>>>, <<64055,<<22022>>>>, <<64056,<<22120>>>>,
       <<64057,<<22592>>>>, <<64058,<<22696>>>>, <<64059,<<23652>>>>, <<64060,<<23662>>>>, <<64061,<<24724>>>>,
       <<64062,<<24936>>>>, <<64063,<<24974>>>>, <<64064,<<25074>>>>, <<64065,<<25935>>>>, <<64066,<<26082>>>>,
       <<64067,<<26257>>>>, <<64068,<<26757>>>>, <<64069,<<28023>>>>, <<64070,<<28186>>>>, <<64071,<<28450>>>>,
       <<64072,<<29038>>>>, <<64073,<<29227>>>>, <<64074,<<29730>>>>, <<64075,<<30865>>>>, <<64076,<<31038>>>>,
       <<64077,<<31049>>>>, <<64078,<<31048>>>>, <<64079,<<31056>>>>, <<64080,<<31062>>>>, <<64081,<<31069>>>>,
       <<64082,<<31117>>>>, <<64083,<<31118>>>>, <<64084,<<31296>>>>, <<64085,<<31361>>>>, <<64086,<<31680>>>>,
       <<64087,<<32244>>>>, <<64088,<<32265>>>>, <<64089,<<32321>>>>, <<64090,<<32626>>>>, <<64091,<<32773>>>>,
       <<64092,<<33261>>>>, <<64093,<<33401>>>>, <<64094,<<33401>>>>, <<64095,<<33879>>>>, <<64096,<<35088>>>>,
       <<64097,<<35222>>>>, <<64098,<<35585>>>>, <<64099,<<35641>>>>, <<64100,<<36051>>>>, <<64101,<<36104>>>>,
       <<64102,<<36790>>>>, <<64103,<<36920>>>>, <<64104,<<38627>>>>, <<64105,<<38911>>>>, <<64106,<<38971>>>>,
       <<64107,<<24693>>>>, <<64108,<<148206>>>>, <<64109,<<33304>>>>, <<64112,<<20006>>>>, <<64113,<<20917>>>>,
       <<64114,<<20840>>>>, <<64115,<<20352>>>>, <<64116,<<20805>>>>, <<64117,<<20864>>>>, <<64118,<<21191>>>>,
       <<64119,<<21242>>>>, <<64120,<<21917>>>>, <<64121,<<21845>>>>, <<64122,<<21913>>>>, <<64123,<<21986>>>>,
       <<64124,<<22618>>>>, <<64125,<<22707>>>>, <<64126,<<22852>>>>, <<64127,<<22868>>>>, <<64128,<<23138>>>>,
       <<64129,<<23336>>>>, <<64130,<<24274>>>>, <<64131,<<24281>>>>, <<64132,<<24425>>>>, <<64133,<<24493>>>>,
       <<64134,<<24792>>>>, <<64135,<<24910>>>>, <<64136,<<24840>>>>, <<64137,<<24974>>>>, <<64138,<<24928>>>>,
       <<64139,<<25074>>>>, <<64140,<<25140>>>>, <<64141,<<25540>>>>, <<64142,<<25628>>>>, <<64143,<<25682>>>>,
       <<64144,<<25942>>>>, <<64145,<<26228>>>>, <<64146,<<26391>>>>, <<64147,<<26395>>>>, <<64148,<<26454>>>>,
       <<64149,<<27513>>>>, <<64150,<<27578>>>>, <<64151,<<27969>>>>, <<64152,<<28379>>>>, <<64153,<<28363>>>>,
       <<64154,<<28450>>>>, <<64155,<<28702>>>>, <<64156,<<29038>>>>, <<64157,<<30631>>>>, <<64158,<<29237>>>>,
       <<64159,<<29359>>>>, <<64160,<<29482>>>>, <<64161,<<29809>>>>, <<64162,<<29958>>>>, <<64163,<<30011>>>>,
       <<64164,<<30237>>>>, <<64165,<<30239>>>>, <<64166,<<30410>>>>, <<64167,<<30427>>>>, <<64168,<<30452>>>>,
       <<64169,<<30538>>>>, <<64170,<<30528>>>>, <<64171,<<30924>>>>, <<64172,<<31409>>>>, <<64173,<<31680>>>>,
       <<64174,<<31867>>>>, <<64175,<<32091>>>>, <<64176,<<32244>>>>, <<64177,<<32574>>>>, <<64178,<<32773>>>>,
       <<64179,<<33618>>>>, <<64180,<<33775>>>>, <<64181,<<34681>>>>, <<64182,<<35137>>>>, <<64183,<<35206>>>>,
       <<64184,<<35222>>>>, <<64185,<<35519>>>>, <<64186,<<35576>>>>, <<64187,<<35531>>>>, <<64188,<<35585>>>>,
       <<64189,<<35582>>>>, <<64190,<<35565>>>>, <<64191,<<35641>>>>, <<64192,<<35722>>>>, <<64193,<<36104>>>>,
       <<64194,<<36664>>>>, <<64195,<<36978>>>>, <<64196,<<37273>>>>, <<64197,<<37494>>>>, <<64198,<<38524>>>>,
       <<64199,<<38627>>>>, <<64200,<<38742>>>>, <<64201,<<38875>>>>, <<64202,<<38911>>>>, <<64203,<<38923>>>>,
       <<64204,<<38971>>>>, <<64205,<<39698>>>>, <<64206,<<40860>>>>, <<64207,<<141386>>>>, <<64208,<<141380>>>>,
       <<64209,<<144341>>>>, <<64210,<<15261>>>>, <<64211,<<16408>>>>, <<64212,<<16441>>>>, <<64213,<<152137>>>>,
       <<64214,<<154832>>>>, <<64215,<<163539>>>>, <<64216,<<40771>>>>, <<64217,<<40846>>>>, <<64285,<<1497,1460>>>>,
       <<64287,<<1522,1463>>>>, <<64298,<<1513,1473>>>>, <<64299,<<1513,1474>>>>, <<64300,<<1513,1468,1473>>>>, <<64301,<<1513,1468,1474>>>>,
       <<64302,<<1488,1463>>>>, <<64303,<<1488,1464>>>>, <<64304,<<1488,1468>>>>, <<64305,<<1489,1468>>>>, <<64306,<<1490,1468>>>>,
       <<64307,<<1491,1468>>>>, <<64308,<<1492,1468>>>>, <<64309,<<1493,1468>>>>, <<64310,<<1494,1468>>>>, <<64312,<<1496,1468>>>>,
       <<64313,<<1497,1468>>>>, <<64314,<<1498,1468>>>>, <<64315,<<1499,1468>>>>, <<64316,<<1500,1468>>>>, <<64318,<<1502,1468>>>>,
       <<64320,<<1504,1468>>>>, <<64321,<<1505,1468>>>>, <<64323,<<1507,1468>>>>, <<64324,<<1508,1468>>>>, <<64326,<<1510,1468>>>>,
       <<64327,<<1511,1468>>>>, <<64328,<<1512,1468>>>>, <<64329,<<1513,1468>>>>, <<64330,<<1514,1468>>>>, <<64331,<<1493,1465>>>>,
       <<64332,<<1489,1471>>>>, <<64333,<<1499,1471>>>>, <<64334,<<1508,1471>>>>, <<69786,<<69785,69818>>>>, <<69788,<<69787,69818>>>>,
       <<69803,<<69797,69818>>>>, <<69934,<<69937,69927>>>>, <<69935,<<69938,69927>>>>, <<70475,<<70471,70462>>>>, <<70476,<<70471,70487>>>>,
       <<70843,<<70841,70842>>>>, <<70844,<<70841,70832>>>>, <<70846,<<70841,70845>>>>, <<71098,<<71096,71087>>>>, <<71099,<<71097,71087>>>>,
       <<71992,<<71989,71984>>>>, <<119134,<<119127,119141>>>>, <<119135,<<119128,119141>>>>, <<119136,<<119128,119141,119150>>>>, <<119137,<<119128,119141,119151>>>>,
       <<119138,<<119128,119141,119152>>>>, <<119139,<<119128,119141,119153>>>>, <<119140,<<119128,119141,119154>>>>, <<119227,<<119225,119141>>>>, <<119228,<<119226,119141>>>>,
       <<119229,<<119225,119141,119150>>>>, <<119230,<<119226,119141,119150>>>>, <<119231,<<119225,119141,119151>>>>, <<119232,<<119226,119141,119151>>>>, <<194560,<<20029>>>>,
       <<194561,<<20024>>>>, <<194562,<<20033>>>>, <<194563,<<131362>>>>, <<194564,<<20320>>>>, <<194565,<<20398>>>>,
       <<194566,<<20411>>>>, <<194567,<<20482>>>>, <<194568,<<20602>>>>, <<194569,<<20633>>>>, <<194570,<<20711>>>>,
       <<194571,<<20687>>>>, <<194572,<<13470>>>>, <<194573,<<132666>>>>, <<194574,<<20813>>>>, <<194575,<<20820>>>>,
       <<194576,<<20836>>>>, <<194577,<<20855>>>>, <<194578,<<132380>>>>, <<194579,<<13497>>>>, <<194580,<<20839>>>>,
       <<194581,<<20877>>>>, <<194582,<<132427>>>>, <<194583,<<20887>>>>, <<194584,<<20900>>>>, <<194585,<<20172>>>>,
       <<194586,<<20908>>>>, <<194587,<<20917>>>>, <<194588,<<168415>>>>, <<194589,<<20981>>>>, <<194590,<<20995>>>>,
       <<194591,<<13535>>>>, <<194592,<<21051>>>>, <<194593,<<21062>>>>, <<194594,<<21106>>>>, <<194595,<<21111>>>>,
       <<194596,<<13589>>>>, <<194597,<<21191>>>>, <<194598,<<21193>>>>, <<194599,<<21220>>>>, <<194600,<<21242>>>>,
       <<194601,<<21253>>>>, <<194602,<<21254>>>>, <<194603,<<21271>>>>, <<194604,<<21321>>>>, <<194605,<<21329>>>>,
       <<194606,<<21338>>>>, <<194607,<<21363>>>>, <<194608,<<21373>>>>, <<194609,<<21375>>>>, <<194610,<<21375>>>>,
       <<194611,<<21375>>>>, <<194612,<<133676>>>>, <<194613,<<28784>>>>, <<194614,<<21450>>>>, <<194615,<<21471>>>>,
       <<194616,<<133987>>>>, <<194617,<<21483>>>>, <<194618,<<21489>>>>, <<194619,<<21510>>>>, <<194620,<<21662>>>>,
       <<194621,<<21560>>>>, <<194622,<<21576>>>>, <<194623,<<21608>>>>, <<194624,<<21666>>>>, <<194625,<<21750>>>>,
       <<194626,<<21776>>>>, <<194627,<<21843>>>>, <<194628,<<21859>>>>, <<194629,<<21892>>>>, <<194630,<<21892>>>>,
       <<194631,<<21913>>>>, <<194632,<<21931>>>>, <<194633,<<21939>>>>, <<194634,<<21954>>>>, <<194635,<<22294>>>>,
       <<194636,<<22022>>>>, <<194637,<<22295>>>>, <<194638,<<22097>>>>, <<194639,<<22132>>>>, <<194640,<<20999>>>>,
       <<194641,<<22766>>>>, <<194642,<<22478>>>>, <<194643,<<22516>>>>, <<194644,<<22541>>>>, <<194645,<<22411>>>>,
       <<194646,<<22578>>>>, <<194647,<<22577>>>>, <<194648,<<22700>>>>, <<194649,<<136420>>>>, <<194650,<<22770>>>>,
       <<194651,<<22775>>>>, <<194652,<<22790>>>>, <<194653,<<22810>>>>, <<194654,<<22818>>>>, <<194655,<<22882>>>>,
       <<194656,<<136872>>>>, <<194657,<<136938>>>>, <<194658,<<23020>>>>, <<194659,<<23067>>>>, <<194660,<<23079>>>>,
       <<194661,<<23000>>>>, <<194662,<<23142>>>>, <<194663,<<14062>>>>, <<194664,<<14076>>>>, <<194665,<<23304>>>>,
       <<194666,<<23358>>>>, <<194667,<<23358>>>>, <<194668,<<137672>>>>, <<194669,<<23491>>>>, <<194670,<<23512>>>>,
       <<194671,<<23527>>>>, <<194672,<<23539>>>>, <<194673,<<138008>>>>, <<194674,<<23551>>>>, <<194675,<<23558>>>>,
       <<194676,<<24403>>>>, <<194677,<<23586>>>>, <<194678,<<14209>>>>, <<194679,<<23648>>>>, <<194680,<<23662>>>>,
       <<194681,<<23744>>>>, <<194682,<<23693>>>>, <<194683,<<138724>>>>, <<194684,<<23875>>>>, <<194685,<<138726>>>>,
       <<194686,<<23918>>>>, <<194687,<<23915>>>>, <<194688,<<23932>>>>, <<194689,<<24033>>>>, <<194690,<<24034>>>>,
       <<194691,<<14383>>>>, <<194692,<<24061>>>>, <<194693,<<24104>>>>, <<194694,<<24125>>>>, <<194695,<<24169>>>>,
       <<194696,<<14434>>>>, <<194697,<<139651>>>>, <<194698,<<14460>>>>, <<194699,<<24240>>>>, <<194700,<<24243>>>>,
       <<194701,<<24246>>>>, <<194702,<<24266>>>>, <<194703,<<172946>>>>, <<194704,<<24318>>>>, <<194705,<<140081>>>>,
       <<194706,<<140081>>>>, <<194707,<<33281>>>>, <<194708,<<24354>>>>, <<194709,<<24354>>>>, <<194710,<<14535>>>>,
       <<194711,<<144056>>>>, <<194712,<<156122>>>>, <<194713,<<24418>>>>, <<194714,<<24427>>>>, <<194715,<<14563>>>>,
       <<194716,<<24474>>>>, <<194717,<<24525>>>>, <<194718,<<24535>>>>, <<194719,<<24569>>>>, <<194720,<<24705>>>>,
       <<194721,<<14650>>>>, <<194722,<<14620>>>>, <<194723,<<24724>>>>, <<194724,<<141012>>>>, <<194725,<<24775>>>>,
       <<194726,<<24904>>>>, <<194727,<<24908>>>>, <<194728,<<24910>>>>, <<194729,<<24908>>>>, <<194730,<<24954>>>>,
       <<194731,<<24974>>>>, <<194732,<<25010>>>>, <<194733,<<24996>>>>, <<194734,<<25007>>>>, <<194735,<<25054>>>>,
       <<194736,<<25074>>>>, <<194737,<<25078>>>>, <<194738,<<25104>>>>, <<194739,<<25115>>>>, <<194740,<<25181>>>>,
       <<194741,<<25265>>>>, <<194742,<<25300>>>>, <<194743,<<25424>>>>, <<194744,<<142092>>>>, <<194745,<<25405>>>>,
       <<194746,<<25340>>>>, <<194747,<<25448>>>>, <<194748,<<25475>>>>, <<194749,<<25572>>>>, <<194750,<<142321>>>>,
       <<194751,<<25634>>>>, <<194752,<<25541>>>>, <<194753,<<25513>>>>, <<194754,<<14894>>>>, <<194755,<<25705>>>>,
       <<194756,<<25726>>>>, <<194757,<<25757>>>>, <<194758,<<25719>>>>, <<194759,<<14956>>>>, <<194760,<<25935>>>>,
       <<194761,<<25964>>>>, <<194762,<<143370>>>>, <<194763,<<26083>>>>, <<194764,<<26360>>>>, <<194765,<<26185>>>>,
       <<194766,<<15129>>>>, <<194767,<<26257>>>>, <<194768,<<15112>>>>, <<194769,<<15076>>>>, <<194770,<<20882>>>>,
       <<194771,<<20885>>>>, <<194772,<<26368>>>>, <<194773,<<26268>>>>, <<194774,<<32941>>>>, <<194775,<<17369>>>>,
       <<194776,<<26391>>>>, <<194777,<<26395>>>>, <<194778,<<26401>>>>, <<194779,<<26462>>>>, <<194780,<<26451>>>>,
       <<194781,<<144323>>>>, <<194782,<<15177>>>>, <<194783,<<26618>>>>, <<194784,<<26501>>>>, <<194785,<<26706>>>>,
       <<194786,<<26757>>>>, <<194787,<<144493>>>>, <<194788,<<26766>>>>, <<194789,<<26655>>>>, <<194790,<<26900>>>>,
       <<194791,<<15261>>>>, <<194792,<<26946>>>>, <<194793,<<27043>>>>, <<194794,<<27114>>>>, <<194795,<<27304>>>>,
       <<194796,<<145059>>>>, <<194797,<<27355>>>>, <<194798,<<15384>>>>, <<194799,<<27425>>>>, <<194800,<<145575>>>>,
       <<194801,<<27476>>>>, <<194802,<<15438>>>>, <<194803,<<27506>>>>, <<194804,<<27551>>>>, <<194805,<<27578>>>>,
       <<194806,<<27579>>>>, <<194807,<<146061>>>>, <<194808,<<138507>>>>, <<194809,<<146170>>>>, <<194810,<<27726>>>>,
       <<194811,<<146620>>>>, <<194812,<<27839>>>>, <<194813,<<27853>>>>, <<194814,<<27751>>>>, <<194815,<<27926>>>>,
       <<194816,<<27966>>>>, <<194817,<<28023>>>>, <<194818,<<27969>>>>, <<194819,<<28009>>>>, <<194820,<<28024>>>>,
       <<194821,<<28037>>>>, <<194822,<<146718>>>>, <<194823,<<27956>>>>, <<194824,<<28207>>>>, <<194825,<<28270>>>>,
       <<194826,<<15667>>>>, <<194827,<<28363>>>>, <<194828,<<28359>>>>, <<194829,<<147153>>>>, <<194830,<<28153>>>>,
       <<194831,<<28526>>>>, <<194832,<<147294>>>>, <<194833,<<147342>>>>, <<194834,<<28614>>>>, <<194835,<<28729>>>>,
       <<194836,<<28702>>>>, <<194837,<<28699>>>>, <<194838,<<15766>>>>, <<194839,<<28746>>>>, <<194840,<<28797>>>>,
       <<194841,<<28791>>>>, <<194842,<<28845>>>>, <<194843,<<132389>>>>, <<194844,<<28997>>>>, <<194845,<<148067>>>>,
       <<194846,<<29084>>>>, <<194847,<<148395>>>>, <<194848,<<29224>>>>, <<194849,<<29237>>>>, <<194850,<<29264>>>>,
       <<194851,<<149000>>>>, <<194852,<<29312>>>>, <<194853,<<29333>>>>, <<194854,<<149301>>>>, <<194855,<<149524>>>>,
       <<194856,<<29562>>>>, <<194857,<<29579>>>>, <<194858,<<16044>>>>, <<194859,<<29605>>>>, <<194860,<<16056>>>>,
       <<194861,<<16056>>>>, <<194862,<<29767>>>>, <<194863,<<29788>>>>, <<194864,<<29809>>>>, <<194865,<<29829>>>>,
       <<194866,<<29898>>>>, <<194867,<<16155>>>>, <<194868,<<29988>>>>, <<194869,<<150582>>>>, <<194870,<<30014>>>>,
       <<194871,<<150674>>>>, <<194872,<<30064>>>>, <<194873,<<139679>>>>, <<194874,<<30224>>>>, <<194875,<<151457>>>>,
       <<194876,<<151480>>>>, <<194877,<<151620>>>>, <<194878,<<16380>>>>, <<194879,<<16392>>>>, <<194880,<<30452>>>>,
       <<194881,<<151795>>>>, <<194882,<<151794>>>>, <<194883,<<151833>>>>, <<194884,<<151859>>>>, <<194885,<<30494>>>>,
       <<194886,<<30495>>>>, <<194887,<<30495>>>>, <<194888,<<30538>>>>, <<194889,<<16441>>>>, <<194890,<<30603>>>>,
       <<194891,<<16454>>>>, <<194892,<<16534>>>>, <<194893,<<152605>>>>, <<194894,<<30798>>>>, <<194895,<<30860>>>>,
       <<194896,<<30924>>>>, <<194897,<<16611>>>>, <<194898,<<153126>>>>, <<194899,<<31062>>>>, <<194900,<<153242>>>>,
       <<194901,<<153285>>>>, <<194902,<<31119>>>>, <<194903,<<31211>>>>, <<194904,<<16687>>>>, <<194905,<<31296>>>>,
       <<194906,<<31306>>>>, <<194907,<<31311>>>>, <<194908,<<153980>>>>, <<194909,<<154279>>>>, <<194910,<<154279>>>>,
       <<194911,<<31470>>>>, <<194912,<<16898>>>>, <<194913,<<154539>>>>, <<194914,<<31686>>>>, <<194915,<<31689>>>>,
       <<194916,<<16935>>>>, <<194917,<<154752>>>>, <<194918,<<31954>>>>, <<194919,<<17056>>>>, <<194920,<<31976>>>>,
       <<194921,<<31971>>>>, <<194922,<<32000>>>>, <<194923,<<155526>>>>, <<194924,<<32099>>>>, <<194925,<<17153>>>>,
       <<194926,<<32199>>>>, <<194927,<<32258>>>>, <<194928,<<32325>>>>, <<194929,<<17204>>>>, <<194930,<<156200>>>>,
       <<194931,<<156231>>>>, <<194932,<<17241>>>>, <<194933,<<156377>>>>, <<194934,<<32634>>>>, <<194935,<<156478>>>>,
       <<194936,<<32661>>>>, <<194937,<<32762>>>>, <<194938,<<32773>>>>, <<194939,<<156890>>>>, <<194940,<<156963>>>>,
       <<194941,<<32864>>>>, <<194942,<<157096>>>>, <<194943,<<32880>>>>, <<194944,<<144223>>>>, <<194945,<<17365>>>>,
       <<194946,<<32946>>>>, <<194947,<<33027>>>>, <<194948,<<17419>>>>, <<194949,<<33086>>>>, <<194950,<<23221>>>>,
       <<194951,<<157607>>>>, <<194952,<<157621>>>>, <<194953,<<144275>>>>, <<194954,<<144284>>>>, <<194955,<<33281>>>>,
       <<194956,<<33284>>>>, <<194957,<<36766>>>>, <<194958,<<17515>>>>, <<194959,<<33425>>>>, <<194960,<<33419>>>>,
       <<194961,<<33437>>>>, <<194962,<<21171>>>>, <<194963,<<33457>>>>, <<194964,<<33459>>>>, <<194965,<<33469>>>>,
       <<194966,<<33510>>>>, <<194967,<<158524>>>>, <<194968,<<33509>>>>, <<194969,<<33565>>>>, <<194970,<<33635>>>>,
       <<194971,<<33709>>>>, <<194972,<<33571>>>>, <<194973,<<33725>>>>, <<194974,<<33767>>>>, <<194975,<<33879>>>>,
       <<194976,<<33619>>>>, <<194977,<<33738>>>>, <<194978,<<33740>>>>, <<194979,<<33756>>>>, <<194980,<<158774>>>>,
       <<194981,<<159083>>>>, <<194982,<<158933>>>>, <<194983,<<17707>>>>, <<194984,<<34033>>>>, <<194985,<<34035>>>>,
       <<194986,<<34070>>>>, <<194987,<<160714>>>>, <<194988,<<34148>>>>, <<194989,<<159532>>>>, <<194990,<<17757>>>>,
       <<194991,<<17761>>>>, <<194992,<<159665>>>>, <<194993,<<159954>>>>, <<194994,<<17771>>>>, <<194995,<<34384>>>>,
       <<194996,<<34396>>>>, <<194997,<<34407>>>>, <<194998,<<34409>>>>, <<194999,<<34473>>>>, <<195000,<<34440>>>>,
       <<195001,<<34574>>>>, <<195002,<<34530>>>>, <<195003,<<34681>>>>, <<195004,<<34600>>>>, <<195005,<<34667>>>>,
       <<195006,<<34694>>>>, <<195007,<<17879>>>>, <<195008,<<34785>>>>, <<195009,<<34817>>>>, <<195010,<<17913>>>>,
       <<195011,<<34912>>>>, <<195012,<<34915>>>>, <<195013,<<161383>>>>, <<195014,<<35031>>>>, <<195015,<<35038>>>>,
       <<195016,<<17973>>>>, <<195017,<<35066>>>>, <<195018,<<13499>>>>, <<195019,<<161966>>>>, <<195020,<<162150>>>>,
       <<195021,<<18110>>>>, <<195022,<<18119>>>>, <<195023,<<35488>>>>, <<195024,<<35565>>>>, <<195025,<<35722>>>>,
       <<195026,<<35925>>>>, <<195027,<<162984>>>>, <<195028,<<36011>>>>, <<195029,<<36033>>>>, <<195030,<<36123>>>>,
       <<195031,<<36215>>>>, <<195032,<<163631>>>>, <<195033,<<133124>>>>, <<195034,<<36299>>>>, <<195035,<<36284>>>>,
       <<195036,<<36336>>>>, <<195037,<<133342>>>>, <<195038,<<36564>>>>, <<195039,<<36664>>>>, <<195040,<<165330>>>>,
       <<195041,<<165357>>>>, <<195042,<<37012>>>>, <<195043,<<37105>>>>, <<195044,<<37137>>>>, <<195045,<<165678>>>>,
       <<195046,<<37147>>>>, <<195047,<<37432>>>>, <<195048,<<37591>>>>, <<195049,<<37592>>>>, <<195050,<<37500>>>>,
       <<195051,<<37881>>>>, <<195052,<<37909>>>>, <<195053,<<166906>>>>, <<195054,<<38283>>>>, <<195055,<<18837>>>>,
       <<195056,<<38327>>>>, <<195057,<<167287>>>>, <<195058,<<18918>>>>, <<195059,<<38595>>>>, <<195060,<<23986>>>>,
       <<195061,<<38691>>>>, <<195062,<<168261>>>>, <<195063,<<168474>>>>, <<195064,<<19054>>>>, <<195065,<<19062>>>>,
       <<195066,<<38880>>>>, <<195067,<<168970>>>>, <<195068,<<19122>>>>, <<195069,<<169110>>>>, <<195070,<<38923>>>>,
       <<195071,<<38923>>>>, <<195072,<<38953>>>>, <<195073,<<169398>>>>, <<195074,<<39138>>>>, <<195075,<<19251>>>>,
       <<195076,<<39209>>>>, <<195077,<<39335>>>>, <<195078,<<39362>>>>, <<195079,<<39422>>>>, <<195080,<<19406>>>>,
       <<195081,<<170800>>>>, <<195082,<<39698>>>>, <<195083,<<40000>>>>, <<195084,<<40189>>>>, <<195085,<<19662>>>>,
       <<195086,<<19693>>>>, <<195087,<<40295>>>>, <<195088,<<172238>>>>, <<195089,<<19704>>>>, <<195090,<<172293>>>>,
       <<195091,<<172558>>>>, <<195092,<<172689>>>>, <<195093,<<40635>>>>, <<195094,<<19798>>>>, <<195095,<<40697>>>>,
       <<195096,<<40702>>>>, <<195097,<<40709>>>>, <<195098,<<40719>>>>, <<195099,<<40726>>>>, <<195100,<<40763>>>>,
       <<195101,<<173568>>>> >>

\* the canonical combining class of the characters whose class is not 0:
\* <<first, last, class>>
CombiningRanges ==
    << <<768,788,230>>, <<789,789,232>>, <<790,793,220>>, <<794,794,232>>, <<795,795,216>>, <<796,800,220>>,
       <<801,802,202>>, <<803,806,220>>, <<807,808,202>>, <<809,819,220>>, <<820,824,1>>, <<825,828,220>>,
       <<829,836,230>>, <<837,837,240>>, <<838,838,230>>, <<839,841,220>>, <<842,844,230>>, <<845,846,220>>,
       <<848,850,230>>, <<851,854,220>>, <<855,855,230>>, <<856,856,232>>, <<857,858,220>>, <<859,859,230>>,
       <<860,860,233>>, <<861,862,234>>, <<863,863,233>>, <<864,865,234>>, <<866,866,233>>, <<867,879,230>>,
       <<1155,1159,230>>, <<1425,1425,220>>, <<1426,1429,230>>, <<1430,1430,220>>, <<1431,1433,230>>, <<1434,1434,222>>,
       <<1435,1435,220>>, <<1436,1441,230>>, <<1442,1447,220>>, <<1448,1449,230>>, <<1450,1450,220>>, <<1451,1452,230>>,
       <<1453,1453,222>>, <<1454,1454,228>>, <<1455,1455,230>>, <<1456,1456,10>>, <<1457,1457,11>>, <<1458,1458,12>>,
       <<1459,1459,13>>, <<1460,1460,14>>, <<1461,1461,15>>, <<1462,1462,16>>, <<1463,1463,17>>, <<1464,1464,18>>,
       <<1465,1466,19>>, <<1467,1467,20>>, <<1468,1468,21>>, <<1469,1469,22>>, <<1471,1471,23>>, <<1473,1473,24>>,
       <<1474,1474,25>>, <<1476,1476,230>>, <<1477,1477,220>>, <<1479,1479,18>>, <<1552,1559,230>>, <<1560,1560,30>>,
       <<1561,1561,31>>, <<1562,1562,32>>, <<1611,1611,27>>, <<1612,1612,28>>, <<1613,1613,29>>, <<1614,1614,30>>,
       <<1615,1615,31>>, <<1616,1616,32>>, <<1617,1617,33>>, <<1618,1618,34>>, <<1619,1620,230>>, <<1621,1622,220>>,
       <<1623,1627,230>>, <<1628,1628,220>>, <<1629,1630,230>>, <<1631,1631,220>>, <<1648,1648,35>>, <<1750,1756,230>>,
       <<1759,1762,230>>, <<1763,1763,220>>, <<1764,1764,230>>, <<1767,1768,230>>, <<1770,1770,220>>, <<1771,1772,230>>,
       <<1773,1773,220>>, <<1809,1809,36>>, <<1840,1840,230>>, <<1841,1841,220>>, <<1842,1843,230>>, <<1844,1844,220>>,
       <<1845,1846,230>>, <<1847,1849,220>>, <<1850,1850,230>>, <<1851,1852,220>>, <<1853,1853,230>>, <<1854,1854,220>>,
       <<1855,1857,230>>, <<1858,1858,220>>, <<1859,1859,230>>, <<1860,1860,220>>, <<1861,1861,230>>, <<1862,1862,220>>,
       <<1863,1863,230>>, <<1864,1864,220>>, <<1865,1866,230>>, <<2027,2033,230>>, <<2034,2034,220>>, <<2035,2035,230>>,
       <<2045,2045,220>>, <<2070,2073,230>>, <<2075,2083,230>>, <<2085,2087,230>>, <<2089,2093,230>>, <<2137,2139,220>>,
       <<2200,2200,230>>, <<2201,2203,220>>, <<2204,2207,230>>, <<2250,2254,230>>, <<2255,2259,220>>, <<2260,2273,230>>,
       <<2275,2275,220>>, <<2276,2277,230>>, <<2278,2278,220>>, <<2279,2280,230>>, <<2281,2281,220>>, <<2282,2284,230>>,
       <<2285,2287,220>>, <<2288,2288,27>>, <<2289,2289,28>>, <<2290,2290,29>>, <<2291,2293,230>>, <<2294,2294,220>>,
       <<2295,2296,230>>, <<2297,2298,220>>, <<2299,2303,230>>, <<2364,2364,7>>, <<2381,2381,9>>, <<2385,2385,230>>,
       <<2386,2386,220>>, <<2387,2388,230>>, <<2492,2492,7>>, <<2509,2509,9>>, <<2558,2558,230>>, <<2620,2620,7>>,
       <<2637,2637,9>>, <<2748,2748,7>>, <<2765,2765,9>>, <<2876,2876,7>>, <<2893,2893,9>>, <<3021,3021,9>>,
       <<3132,3132,7>>, <<3149,3149,9>>, <<3157,3157,84>>, <<3158,3158,91>>, <<3260,3260,7>>, <<3277,3277,9>>,
       <<3387,3388,9>>, <<3405,3405,9>>, <<3530,3530,9>>, <<3640,3641,103>>, <<3642,3642,9>>, <<3656,3659,107>>,
       <<3768,3769,118>>, <<3770,3770,9>>, <<3784,3787,122>>, <<3864,3865,220>>, <<3893,3893,220>>, <<3895,3895,220>>,
       <<3897,3897,216>>, <<3953,3953,129>>, <<3954,3954,130>>, <<3956,3956,132>>, <<3962,3965,130>>, <<3968,3968,130>>,
       <<3970,3971,230>>, <<3972,3972,9>>, <<3974,3975,230>>, <<4038,4038,220>>, <<4151,4151,7>>, <<4153,4154,9>>,
       <<4237,4237,220>>, <<4957,4959,230>>, <<5908,5909,9>>, <<5940,5940,9>>, <<6098,6098,9>>, <<6109,6109,230>>,
       <<6313,6313,228>>, <<6457,6457,222>>, <<6458,6458,230>>, <<6459,6459,220>>, <<6679,6679,230>>, <<6680,6680,220>>,
       <<6752,6752,9>>, <<6773,6780,230>>, <<6783,6783,220>>, <<6832,6836,230>>, <<6837,6842,220>>, <<6843,6844,230>>,
       <<6845,6845,220>>, <<6847,6848,220>>, <<6849,6850,230>>, <<6851,6852,220>>, <<6853,6857,230>>, <<6858,6858,220>>,
       <<6859,6862,230>>, <<6964,6964,7>>, <<6980,6980,9>>, <<7019,7019,230>>, <<7020,7020,220>>, <<7021,7027,230>>,
       <<7082,7083,9>>, <<7142,7142,7>>, <<7154,7155,9>>, <<7223,7223,7>>, <<7376,7378,230>>, <<7380,7380,1>>,
       <<7381,7385,220>>, <<7386,7387,230>>, <<7388,7391,220>>, <<7392,7392,230>>, <<7394,7400,1>>, <<7405,7405,220>>,
       <<7412,7412,230>>, <<7416,7417,230>>, <<7616,7617,230>>, <<7618,7618,220>>, <<7619,7625,230>>, <<7626,7626,220>>,
       <<7627,7628,230>>, <<7629,7629,234>>, <<7630,7630,214>>, <<7631,7631,220>>, <<7632,7632,202>>, <<7633,7669,230>>,
       <<7670,7670,232>>, <<7671,7672,228>>, <<7673,7673,220>>, <<7674,7674,218>>, <<7675,7675,230>>, <<7676,7676,233>>,
       <<7677,7677,220>>, <<7678,7678,230>>, <<7679,7679,220>>, <<8400,8401,230>>, <<8402,8403,1>>, <<8404,8407,230>>,
       <<8408,8410,1>>, <<8411,8412,230>>, <<8417,8417,230>>, <<8421,8422,1>>, <<8423,8423,230>>, <<8424,8424,220>>,
       <<8425,8425,230>>, <<8426,8427,1>>, <<8428,8431,220>>, <<8432,8432,230>>, <<11503,11505,230>>, <<11647,11647,9>>,
       <<11744,11775,230>>, <<12330,12330,218>>, <<12331,12331,228>>, <<12332,12332,232>>, <<12333,12333,222>>, <<12334,12335,224>>,
       <<12441,12442,8>>, <<42607,42607,230>>, <<42612,42621,230>>, <<42654,42655,230>>, <<42736,42737,230>>, <<43014,43014,9>>,
       <<43052,43052,9>>, <<43204,43204,9>>, <<43232,43249,230>>, <<43307,43309,220>>, <<43347,43347,9>>, <<43443,43443,7>>,
       <<43456,43456,9>>, <<43696,43696,230>>, <<43698,43699,230>>, <<43700,43700,220>>, <<43703,43704,230>>, <<43710,43711,230>>,
       <<43713,43713,230>>, <<43766,43766,9>>, <<44013,44013,9>>, <<64286,64286,26>>, <<65056,65062,230>>, <<65063,65069,220>>,
       <<65070,65071,230>>, <<66045,66045,220>>, <<66272,66272,220>>, <<66422,66426,230>>, <<68109,68109,220>>, <<68111,68111,230>>,
       <<68152,68152,230>>, <<68153,68153,1>>, <<68154,68154,220>>, <<68159,68159,9>>, <<68325,68325,230>>, <<68326,68326,220>>,
       <<68900,68903,230>>, <<69291,69292,230>>, <<69446,69447,220>>, <<69448,69450,230>>, <<69451,69451,220>>, <<69452,69452,230>>,
       <<69453,69456,220>>, <<69506,69506,230>>, <<69507,69507,220>>, <<69508,69508,230>>, <<69509,69509,220>>, <<69702,69702,9>>,
       <<69744,69744,9>>, <<69759,69759,9>>, <<69817,69817,9>>, <<69818,69818,7>>, <<69888,69890,230>>, <<69939,69940,9>>,
       <<70003,70003,7>>, <<70080,70080,9>>, <<70090,70090,7>>, <<70197,70197,9>>, <<70198,70198,7>>, <<70377,70377,7>>,
       <<70378,70378,9>>, <<70459,70460,7>>, <<70477,70477,9>>, <<70502,70508,230>>, <<70512,70516,230>>, <<70722,70722,9>>,
       <<70726,70726,7>>, <<70750,70750,230>>, <<70850,70850,9>>, <<70851,70851,7>>, <<71103,71103,9>>, <<71104,71104,7>>,
       <<71231,71231,9>>, <<71350,71350,9>>, <<71351,71351,7>>, <<71467,71467,9>>, <<71737,71737,9>>, <<71738,71738,7>>,
       <<71997,71998,9>>, <<72003,72003,7>>, <<72160,72160,9>>, <<72244,72244,9>>, <<72263,72263,9>>, <<72345,72345,9>>,
       <<72767,72767,9>>, <<73026,73026,7>>, <<73028,73029,9>>, <<73111,73111,9>>, <<92912,92916,1>>, <<92976,92982,230>>,
       <<94192,94193,6>>, <<113822,113822,1>>, <<119141,119142,216>>, <<119143,119145,1>>, <<119149,119149,226>>, <<119150,119154,216>>,
       <<119163,119170,220>>, <<119173,119177,230>>, <<119178,119179,220>>, <<119210,119213,230>>, <<119362,119364,230>>, <<122880,122886,230>>,
       <<122888,122904,230>>, <<122907,122913,230>>, <<122915,122916,230>>, <<122918,122922,230>>, <<123184,123190,230>>, <<123566,123566,230>>,
       <<123628,123631,230>>, <<125136,125142,220>>, <<125252,125257,230>>, <<125258,125258,7>> >>

\* the primary composites: <<first, second, composite>>
CompositionTable ==
    << <<60,824,8814>>, <<61,824,8800>>, <<62,824,8815>>, <<65,768,192>>, <<65,769,193>>,
       <<65,770,194>>, <<65,771,195>>, <<65,772,256>>, <<65,774,258>>, <<65,775,550>>,
       <<65,776,196>>, <<65,777,7842>>, <<65,778,197>>, <<65,780,461>>, <<65,783,512>>,
       <<65,785,514>>, <<65,803,7840>>, <<65,805,7680>>, <<65,808,260>>, <<66,775,7682>>,
       <<66,803,7684>>, <<66,817,7686>>, <<67,769,262>>, <<67,770,264>>, <<67,775,266>>,
       <<67,780,268>>, <<67,807,199>>, <<68,775,7690>>, <<68,780,270>>, <<68,803,7692>>,
       <<68,807,7696>>, <<68,813,7698>>, <<68,817,7694>>, <<69,768,200>>, <<69,769,201>>,
       <<69,770,202>>, <<69,771,7868>>, <<69,772,274>>, <<69,774,276>>, <<69,775,278>>,
       <<69,776,203>>, <<69,777,7866>>, <<69,780,282>>, <<69,783,516>>, <<69,785,518>>,
       <<69,803,7864>>, <<69,807,552>>, <<69,808,280>>, <<69,813,7704>>, <<69,816,7706>>,
       <<70,775,7710>>, <<71,769,500>>, <<71,770,284>>, <<71,772,7712>>, <<71,774,286>>,
       <<71,775,288>>, <<71,780,486>>, <<71,807,290>>, <<72,770,292>>, <<72,775,7714>>,
       <<72,776,7718>>, <<72,780,542>>, <<72,803,7716>>, <<72,807,7720>>, <<72,814,7722>>,
       <<73,768,204>>, <<73,769,205>>, <<73,770,206>>, <<73,771,296>>, <<73,772,298>>,
       <<73,774,300>>, <<73,775,304>>, <<73,776,207>>, <<73,777,7880>>, <<73,780,463>>,
       <<73,783,520>>, <<73,785,522>>, <<73,803,7882>>, <<73,808,302>>, <<73,816,7724>>,
       <<74,770,308>>, <<75,769,7728>>, <<75,780,488>>, <<75,803,7730>>, <<75,807,310>>,
       <<75,817,7732>>, <<76,769,313>>, <<76,780,317>>, <<76,803,7734>>, <<76,807,315>>,
       <<76,813,7740>>, <<76,817,7738>>, <<77,769,7742>>, <<77,775,7744>>, <<77,803,7746>>,
       <<78,768,504>>, <<78,769,323>>, <<78,771,209>>, <<78,775,7748>>, <<78,780,327>>,
       <<78,803,7750>>, <<78,807,325>>, <<78,813,7754>>, <<78,817,7752>>, <<79,768,210>>,
       <<79,769,211>>, <<79,770,212>>, <<79,771,213>>, <<79,772,332>>, <<79,774,334>>,
       <<79,775,558>>, <<79,776,214>>, <<79,777,7886>>, <<79,779,336>>, <<79,780,465>>,
       <<79,783,524>>, <<79,785,526>>, <<79,795,416>>, <<79,803,7884>>, <<79,808,490>>,
       <<80,769,7764>>, <<80,775,7766>>, <<82,769,340>>, <<82,775,7768>>, <<82,780,344>>,
       <<82,783,528>>, <<82,785,530>>, <<82,803,7770>>, <<82,807,342>>, <<82,817,7774>>,
       <<83,769,346>>, <<83,770,348>>, <<83,775,7776>>, <<83,780,352>>, <<83,803,7778>>,
       <<83,806,536>>, <<83,807,350>>, <<84,775,7786>>, <<84,780,356>>, <<84,803,7788>>,
       <<84,806,538>>, <<84,807,354>>, <<84,813,7792>>, <<84,817,7790>>, <<85,768,217>>,
       <<85,769,218>>, <<85,770,219>>, <<85,771,360>>, <<85,772,362>>, <<85,774,364>>,
       <<85,776,220>>, <<85,777,7910>>, <<85,778,366>>, <<85,779,368>>, <<85,780,467>>,
       <<85,783,532>>, <<85,785,534>>, <<85,795,431>>, <<85,803,7908>>, <<85,804,7794>>,
       <<85,808,370>>, <<85,813,7798>>, <<85,816,7796>>, <<86,771,7804>>, <<86,803,7806>>,
       <<87,768,7808>>, <<87,769,7810>>, <<87,770,372>>, <<87,775,7814>>, <<87,776,7812>>,
       <<87,803,7816>>, <<88,775,7818>>, <<88,776,7820>>, <<89,768,7922>>, <<89,769,221>>,
       <<89,770,374>>, <<89,771,7928>>, <<89,772,562>>, <<89,775,7822>>, <<89,776,376>>,
       <<89,777,7926>>, <<89,803,7924>>, <<90,769,377>>, <<90,770,7824>>, <<90,775,379>>,
       <<90,780,381>>, <<90,803,7826>>, <<90,817,7828>>, <<97,768,224>>, <<97,769,225>>,
       <<97,770,226>>, <<97,771,227>>, <<97,772,257>>, <<97,774,259>>, <<97,775,551>>,
       <<97,776,228>>, <<97,777,7843>>, <<97,778,229>>, <<97,780,462>>, <<97,783,513>>,
       <<97,785,515>>, <<97,803,7841>>, <<97,805,7681>>, <<97,808,261>>, <<98,775,7683>>,
       <<98,803,7685>>, <<98,817,7687>>, <<99,769,263>>, <<99,770,265>>, <<99,775,267>>,
       <<99,780,269>>, <<99,807,231>>, <<100,775,7691>>, <<100,780,271>>, <<100,803,7693>>,
       <<100,807,7697>>, <<100,813,7699>>, <<100,817,7695>>, <<101,768,232>>, <<101,769,233>>,
       <<101,770,234>>, <<101,771,7869>>, <<101,772,275>>, <<101,774,277>>, <<101,775,279>>,
       <<101,776,235>>, <<101,777,7867>>, <<101,780,283>>, <<101,783,517>>, <<101,785,519>>,
       <<101,803,7865>>, <<101,807,553>>, <<101,808,281>>, <<101,813,7705>>, <<101,816,7707>>,
       <<102,775,7711>>, <<103,769,501>>, <<103,770,285>>, <<103,772,7713>>, <<103,774,287>>,
       <<103,775,289>>, <<103,780,487>>, <<103,807,291>>, <<104,770,293>>, <<104,775,7715>>,
       <<104,776,7719>>, <<104,780,543>>, <<104,803,7717>>, <<104,807,7721>>, <<104,814,7723>>,
       <<104,817,7830>>, <<105,768,236>>, <<105,769,237>>, <<105,770,238>>, <<105,771,297>>,
       <<105,772,299>>, <<105,774,301>>, <<105,776,239>>, <<105,777,7881>>, <<105,780,464>>,
       <<105,783,521>>, <<105,785,523>>, <<105,803,7883>>, <<105,808,303>>, <<105,816,7725>>,
       <<106,770,309>>, <<106,780,496>>, <<107,769,7729>>, <<107,780,489>>, <<107,803,7731>>,
       <<107,807,311>>, <<107,817,7733>>, <<108,769,314>>, <<108,780,318>>, <<108,803,7735>>,
       <<108,807,316>>, <<108,813,7741>>, <<108,817,7739>>, <<109,769,7743>>, <<109,775,7745>>,
       <<109,803,7747>>, <<110,768,505>>, <<110,769,324>>, <<110,771,241>>, <<110,775,7749>>,
       <<110,780,328>>, <<110,803,7751>>, <<110,807,326>>, <<110,813,7755>>, <<110,817,7753>>,
       <<111,768,242>>, <<111,769,243>>, <<111,770,244>>, <<111,771,245>>, <<111,772,333>>,
       <<111,774,335>>, <<111,775,559>>, <<111,776,246>>, <<111,777,7887>>, <<111,779,337>>,
       <<111,780,466>>, <<111,783,525>>, <<111,785,527>>, <<111,795,417>>, <<111,803,7885>>,
       <<111,808,491>>, <<112,769,7765>>, <<112,775,7767>>, <<114,769,341>>, <<114,775,7769>>,
       <<114,780,345>>, <<114,783,529>>, <<114,785,531>>, <<114,803,7771>>, <<114,807,343>>,
       <<114,817,7775>>, <<115,769,347>>, <<115,770,349>>, <<115,775,7777>>, <<115,780,353>>,
       <<115,803,7779>>, <<115,806,537>>, <<115,807,351>>, <<116,775,7787>>, <<116,776,7831>>,
       <<116,780,357>>, <<116,803,7789>>, <<116,806,539>>, <<116,807,355>>, <<116,813,7793>>,
       <<116,817,7791>>, <<117,768,249>>, <<117,769,250>>, <<117,770,251>>, <<117,771,361>>,
       <<117,772,363>>, <<117,774,365>>, <<117,776,252>>, <<117,777,7911>>, <<117,778,367>>,
       <<117,779,369>>, <<117,780,468>>, <<117,783,533>>, <<117,785,535>>, <<117,795,432>>,
       <<117,803,7909>>, <<117,804,7795>>, <<117,808,371>>, <<117,813,7799>>, <<117,816,7797>>,
       <<118,771,7805>>, <<118,803,7807>>, <<119,768,7809>>, <<119,769,7811>>, <<119,770,373>>,
       <<119,775,7815>>, <<119,776,7813>>, <<119,778,7832>>, <<119,803,7817>>, <<120,775,7819>>,
       <<120,776,7821>>, <<121,768,7923>>, <<121,769,253>>, <<121,770,375>>, <<121,771,7929>>,
       <<121,772,563>>, <<121,775,7823>>, <<121,776,255>>, <<121,777,7927>>, <<121,778,7833>>,
       <<121,803,7925>>, <<122,769,378>>, <<122,770,7825>>, <<122,775,380>>, <<122,780,382>>,
       <<122,803,7827>>, <<122,817,7829>>, <<168,768,8173>>, <<168,769,901>>, <<168,834,8129>>,
       <<194,768,7846>>, <<194,769,7844>>, <<194,771,7850>>, <<194,777,7848>>, <<196,772,478>>,
       <<197,769,506>>, <<198,769,508>>, <<198,772,482>>, <<199,769,7688>>, <<202,768,7872>>,
       <<202,769,7870>>, <<202,771,7876>>, <<202,777,7874>>, <<207,769,7726>>, <<212,768,7890>>,
       <<212,769,7888>>, <<212,771,7894>>, <<212,777,7892>>, <<213,769,7756>>, <<213,772,556>>,
       <<213,776,7758>>, <<214,772,554>>, <<216,769,510>>, <<220,768,475>>, <<220,769,471>>,
       <<220,772,469>>, <<220,780,473>>, <<226,768,7847>>, <<226,769,7845>>, <<226,771,7851>>,
       <<226,777,7849>>, <<228,772,479>>, <<229,769,507>>, <<230,769,509>>, <<230,772,483>>,
       <<231,769,7689>>, <<234,768,7873>>, <<234,769,7871>>, <<234,771,7877>>, <<234,777,7875>>,
       <<239,769,7727>>, <<244,768,7891>>, <<244,769,7889>>, <<244,771,7895>>, <<244,777,7893>>,
       <<245,769,7757>>, <<245,772,557>>, <<245,776,7759>>, <<246,772,555>>, <<248,769,511>>,
       <<252,768,476>>, <<252,769,472>>, <<252,772,470>>, <<252,780,474>>, <<258,768,7856>>,
       <<258,769,7854>>, <<258,771,7860>>, <<258,777,7858>>, <<259,768,7857>>, <<259,769,7855>>,
       <<259,771,7861>>, <<259,777,7859>>, <<274,768,7700>>, <<274,769,7702>>, <<275,768,7701>>,
       <<275,769,7703>>, <<332,768,7760>>, <<332,769,7762>>, <<333,768,7761>>, <<333,769,7763>>,
       <<346,775,7780>>, <<347,775,7781>>, <<352,775,7782>>, <<353,775,7783>>, <<360,769,7800>>,
       <<361,769,7801>>, <<362,776,7802>>, <<363,776,7803>>, <<383,775,7835>>, <<416,768,7900>>,
       <<416,769,7898>>, <<416,771,7904>>, <<416,777,7902>>, <<416,803,7906>>, <<417,768,7901>>,
       <<417,769,7899>>, <<417,771,7905>>, <<417,777,7903>>, <<417,803,7907>>, <<431,768,7914>>,
       <<431,769,7912>>, <<431,771,7918>>, <<431,777,7916>>, <<431,803,7920>>, <<432,768,7915>>,
       <<432,769,7913>>, <<432,771,7919>>, <<432,777,7917>>, <<432,803,7921>>, <<439,780,494>>,
       <<490,772,492>>, <<491,772,493>>, <<550,772,480>>, <<551,772,481>>, <<552,774,7708>>,
       <<553,774,7709>>, <<558,772,560>>, <<559,772,561>>, <<658,780,495>>, <<913,768,8122>>,
       <<913,769,902>>, <<913,772,8121>>, <<913,774,8120>>, <<913,787,7944>>, <<913,788,7945>>,
       <<913,837,8124>>, <<917,768,8136>>, <<917,769,904>>, <<917,787,7960>>, <<917,788,7961>>,
       <<919,768,8138>>, <<919,769,905>>, <<919,787,7976>>, <<919,788,7977>>, <<919,837,8140>>,
       <<921,768,8154>>, <<921,769,906>>, <<921,772,8153>>, <<921,774,8152>>, <<921,776,938>>,
       <<921,787,7992>>, <<921,788,7993>>, <<927,768,8184>>, <<927,769,908>>, <<927,787,8008>>,
       <<927,788,8009>>, <<929,788,8172>>, <<933,768,8170>>, <<933,769,910>>, <<933,772,8169>>,
       <<933,774,8168>>, <<933,776,939>>, <<933,788,8025>>, <<937,768,8186>>, <<937,769,911>>,
       <<937,787,8040>>, <<937,788,8041>>, <<937,837,8188>>, <<940,837,8116>>, <<942,837,8132>>,
       <<945,768,8048>>, <<945,769,940>>, <<945,772,8113>>, <<945,774,8112>>, <<945,787,7936>>,
       <<945,788,7937>>, <<945,834,8118>>, <<945,837,8115>>, <<949,768,8050>>, <<949,769,941>>,
       <<949,787,7952>>, <<949,788,7953>>, <<951,768,8052>>, <<951,769,942>>, <<951,787,7968>>,
       <<951,788,7969>>, <<951,834,8134>>, <<951,837,8131>>, <<953,768,8054>>, <<953,769,943>>,
       <<953,772,8145>>, <<953,774,8144>>, <<953,776,970>>, <<953,787,7984>>, <<953,788,7985>>,
       <<953,834,8150>>, <<959,768,8056>>, <<959,769,972>>, <<959,787,8000>>, <<959,788,8001>>,
       <<961,787,8164>>, <<961,788,8165>>, <<965,768,8058>>, <<965,769,973>>, <<965,772,8161>>,
       <<965,774,8160>>, <<965,776,971>>, <<965,787,8016>>, <<965,788,8017>>, <<965,834,8166>>,
       <<969,768,8060>>, <<969,769,974>>, <<969,787,8032>>, <<969,788,8033>>, <<969,834,8182>>,
       <<969,837,8179>>, <<970,768,8146>>, <<970,769,912>>, <<970,834,8151>>, <<971,768,8162>>,
       <<971,769,944>>, <<971,834,8167>>, <<974,837,8180>>, <<978,769,979>>, <<978,776,980>>,
       <<1030,776,1031>>, <<1040,774,1232>>, <<1040,776,1234>>, <<1043,769,1027>>, <<1045,768,1024>>,
       <<1045,774,1238>>, <<1045,776,1025>>, <<1046,774,1217>>, <<1046,776,1244>>, <<1047,776,1246>>,
       <<1048,768,1037>>, <<1048,772,1250>>, <<1048,774,1049>>, <<1048,776,1252>>, <<1050,769,1036>>,
       <<1054,776,1254>>, <<1059,772,1262>>, <<1059,774,1038>>, <<1059,776,1264>>, <<1059,779,1266>>,
       <<1063,776,1268>>, <<1067,776,1272>>, <<1069,776,1260>>, <<1072,774,1233>>, <<1072,776,1235>>,
       <<1075,769,1107>>, <<1077,768,1104>>, <<1077,774,1239>>, <<1077,776,1105>>, <<1078,774,1218>>,
       <<1078,776,1245>>, <<1079,776,1247>>, <<1080,768,1117>>, <<1080,772,1251>>, <<1080,774,1081>>,
       <<1080,776,1253>>, <<1082,769,1116>>, <<1086,776,1255>>, <<1091,772,1263>>, <<1091,774,1118>>,
       <<1091,776,1265>>, <<1091,779,1267>>, <<1095,776,1269>>, <<1099,776,1273>>, <<1101,776,1261>>,
       <<1110,776,1111>>, <<1140,783,1142>>, <<1141,783,1143>>, <<1240,776,1242>>, <<1241,776,1243>>,
       <<1256,776,1258>>, <<1257,776,1259>>, <<1575,1619,1570>>, <<1575,1620,1571>>, <<1575,1621,1573>>,
       <<1608,1620,1572>>, <<1610,1620,1574>>, <<1729,1620,1730>>, <<1746,1620,1747>>, <<1749,1620,1728>>,
       <<2344,2364,2345>>, <<2352,2364,2353>>, <<2355,2364,2356>>, <<2503,2494,2507>>, <<2503,2519,2508>>,
       <<2887,2878,2891>>, <<2887,2902,2888>>, <<2887,2903,2892>>, <<2962,3031,2964>>, <<3014,3006,3018>>,
       <<3014,3031,3020>>, <<3015,3006,3019>>, <<3142,3158,3144>>, <<3263,3285,3264>>, <<3270,3266,3274>>,
       <<3270,3285,3271>>, <<3270,3286,3272>>, <<3274,3285,3275>>, <<3398,3390,3402>>, <<3398,3415,3404>>,
       <<3399,3390,3403>>, <<3545,3530,3546>>, <<3545,3535,3548>>, <<3545,3551,3550>>, <<3548,3530,3549>>,
       <<4133,4142,4134>>, <<6917,6965,6918>>, <<6919,6965,6920>>, <<6921,6965,6922>>, <<6923,6965,6924>>,
       <<6925,6965,6926>>, <<6929,6965,6930>>, <<6970,6965,6971>>, <<6972,6965,6973>>, <<6974,6965,6976>>,
       <<6975,6965,6977>>, <<6978,6965,6979>>, <<7734,772,7736>>, <<7735,772,7737>>, <<7770,772,7772>>,
       <<7771,772,7773>>, <<7778,775,7784>>, <<7779,775,7785>>, <<7840,770,7852>>, <<7840,774,7862>>,
       <<7841,770,7853>>, <<7841,774,7863>>, <<7864,770,7878>>, <<7865,770,7879>>, <<7884,770,7896>>,
       <<7885,770,7897>>, <<7936,768,7938>>, <<7936,769,7940>>, <<7936,834,7942>>, <<7936,837,8064>>,
       <<7937,768,7939>>, <<7937,769,7941>>, <<7937,834,7943>>, <<7937,837,8065>>, <<7938,837,8066>>,
       <<7939,837,8067>>, <<7940,837,8068>>, <<7941,837,8069>>, <<7942,837,8070>>, <<7943,837,8071>>,
       <<7944,768,7946>>, <<7944,769,7948>>, <<7944,834,7950>>, <<7944,837,8072>>, <<7945,768,7947>>,
       <<7945,769,7949>>, <<7945,834,7951>>, <<7945,837,8073>>, <<7946,837,8074>>, <<7947,837,8075>>,
       <<7948,837,8076>>, <<7949,837,8077>>, <<7950,837,8078>>, <<7951,837,8079>>, <<7952,768,7954>>,
       <<7952,769,7956>>, <<7953,768,7955>>, <<7953,769,7957>>, <<7960,768,7962>>, <<7960,769,7964>>,
       <<7961,768,7963>>, <<7961,769,7965>>, <<7968,768,7970>>, <<7968,769,7972>>, <<7968,834,7974>>,
       <<7968,837,8080>>, <<7969,768,7971>>, <<7969,769,7973>>, <<7969,834,7975>>, <<7969,837,8081>>,
       <<7970,837,8082>>, <<7971,837,8083>>, <<7972,837,8084>>, <<7973,837,8085>>, <<7974,837,8086>>,
       <<7975,837,8087>>, <<7976,768,7978>>, <<7976,769,7980>>, <<7976,834,7982>>, <<7976,837,8088>>,
       <<7977,768,7979>>, <<7977,769,7981>>, <<7977,834,7983>>, <<7977,837,8089>>, <<7978,837,8090>>,
       <<7979,837,8091>>, <<7980,837,8092>>, <<7981,837,8093>>, <<7982,837,8094>>, <<7983,837,8095>>,
       <<7984,768,7986>>, <<7984,769,7988>>, <<7984,834,7990>>, <<7985,768,7987>>, <<7985,769,7989>>,
       <<7985,834,7991>>, <<7992,768,7994>>, <<7992,769,7996>>, <<7992,834,7998>>, <<7993,768,7995>>,
       <<7993,769,7997>>, <<7993,834,7999>>, <<8000,768,8002>>, <<8000,769,8004>>, <<8001,768,8003>>,
       <<8001,769,8005>>, <<8008,768,8010>>, <<8008,769,8012>>, <<8009,768,8011>>, <<8009,769,8013>>,
       <<8016,768,8018>>, <<8016,769,8020>>, <<8016,834,8022>>, <<8017,768,8019>>, <<8017,769,8021>>,
       <<8017,834,8023>>, <<8025,768,8027>>, <<8025,769,8029>>, <<8025,834,8031>>, <<8032,768,8034>>,
       <<8032,769,8036>>, <<8032,834,8038>>, <<8032,837,8096>>, <<8033,768,8035>>, <<8033,769,8037>>,
       <<8033,834,8039>>, <<8033,837,8097>>, <<8034,837,8098>>, <<8035,837,8099>>, <<8036,837,8100>>,
       <<8037,837,8101>>, <<8038,837,8102>>, <<8039,837,8103>>, <<8040,768,8042>>, <<8040,769,8044>>,
       <<8040,834,8046>>, <<8040,837,8104>>, <<8041,768,8043>>, <<8041,769,8045>>, <<8041,834,8047>>,
       <<8041,837,8105>>, <<8042,837,8106>>, <<8043,837,8107>>, <<8044,837,8108>>, <<8045,837,8109>>,
       <<8046,837,8110>>, <<8047,837,8111>>, <<8048,837,8114>>, <<8052,837,8130>>, <<8060,837,8178>>,
       <<8118,837,8119>>, <<8127,768,8141>>, <<8127,769,8142>>, <<8127,834,8143>>, <<8134,837,8135>>,
       <<8182,837,8183>>, <<8190,768,8157>>, <<8190,769,8158>>, <<8190,834,8159>>, <<8592,824,8602>>,
       <<8594,824,8603>>, <<8596,824,8622>>, <<8656,824,8653>>, <<8658,824,8655>>, <<8660,824,8654>>,
       <<8707,824,8708>>, <<8712,824,8713>>, <<8715,824,8716>>, <<8739,824,8740>>, <<8741,824,8742>>,
       <<8764,824,8769>>, <<8771,824,8772>>, <<8773,824,8775>>, <<8776,824,8777>>, <<8781,824,8813>>,
       <<8801,824,8802>>, <<8804,824,8816>>, <<8805,824,8817>>, <<8818,824,8820>>, <<8819,824,8821>>,
       <<8822,824,8824>>, <<8823,824,8825>>, <<8826,824,8832>>, <<8827,824,8833>>, <<8828,824,8928>>,
       <<8829,824,8929>>, <<8834,824,8836>>, <<8835,824,8837>>, <<8838,824,8840>>, <<8839,824,8841>>,
       <<8849,824,8930>>, <<8850,824,8931>>, <<8866,824,8876>>, <<8872,824,8877>>, <<8873,824,8878>>,
       <<8875,824,8879>>, <<8882,824,8938>>, <<8883,824,8939>>, <<8884,824,8940>>, <<8885,824,8941>>,
       <<12358,12441,12436>>, <<12363,12441,12364>>, <<12365,12441,12366>>, <<12367,12441,12368>>, <<12369,12441,12370>>,
       <<12371,12441,12372>>, <<12373,12441,12374>>, <<12375,12441,12376>>, <<12377,12441,12378>>, <<12379,12441,12380>>,
       <<12381,12441,12382>>, <<12383,12441,12384>>, <<12385,12441,12386>>, <<12388,12441,12389>>, <<12390,12441,12391>>,
       <<12392,12441,12393>>, <<12399,12441,12400>>, <<12399,12442,12401>>, <<12402,12441,12403>>, <<12402,12442,12404>>,
       <<12405,12441,12406>>, <<12405,12442,12407>>, <<12408,12441,12409>>, <<12408,12442,12410>>, <<12411,12441,12412>>,
       <<12411,12442,12413>>, <<12445,12441,12446>>, <<12454,12441,12532>>, <<12459,12441,12460>>, <<12461,12441,12462>>,
       <<12463,12441,12464>>, <<12465,12441,12466>>, <<12467,12441,12468>>, <<12469,12441,12470>>, <<12471,12441,12472>>,
       <<12473,12441,12474>>, <<12475,12441,12476>>, <<12477,12441,12478>>, <<12479,12441,12480>>, <<12481,12441,12482>>,
       <<12484,12441,12485>>, <<12486,12441,12487>>, <<12488,12441,12489>>, <<12495,12441,12496>>, <<12495,12442,12497>>,
       <<12498,12441,12499>>, <<12498,12442,12500>>, <<12501,12441,12502>>, <<12501,12442,12503>>, <<12504,12441,12505>>,
       <<12504,12442,12506>>, <<12507,12441,12508>>, <<12507,12442,12509>>, <<12527,12441,12535>>, <<12528,12441,12536>>,
       <<12529,12441,12537>>, <<12530,12441,12538>>, <<12541,12441,12542>>, <<69785,69818,69786>>, <<69787,69818,69788>>,
       <<69797,69818,69803>>, <<69937,69927,69934>>, <<69938,69927,69935>>, <<70471,70462,70475>>, <<70471,70487,70476>>,
       <<70841,70832,70844>>, <<70841,70842,70843>>, <<70841,70845,70846>>, <<71096,71087,71098>>, <<71097,71087,71099>>,
       <<71989,71984,71992>> >>

\* a Hangul syllable is a leading consonant, a vowel and, unless it is the
\* first of its 28, a trailing consonant
HangulDecomposed(s) ==
    <<4352 + (s \div 588), 4449 + ((s % 588) \div 28)>>
        \o (IF s % 28 = 0 THEN <<>> ELSE <<4519 + (s % 28)>>)

NfdChar(c) ==
    IF 44032 <= c /\ c <= 55203 THEN HangulDecomposed(c - 44032)
    ELSE IF \E i \in 1..Len(NfdTable) : NfdTable[i][1] = c
    THEN NfdTable[CHOOSE i \in 1..Len(NfdTable) : NfdTable[i][1] = c][2]
    ELSE <<c>>

CombiningClass(c) ==
    IF \E i \in 1..Len(CombiningRanges) :
            CombiningRanges[i][1] <= c /\ c <= CombiningRanges[i][2]
    THEN CombiningRanges[CHOOSE i \in 1..Len(CombiningRanges) :
            CombiningRanges[i][1] <= c /\ c <= CombiningRanges[i][2]][3]
    ELSE 0

\* the characters whose property NFC_Quick_Check is not "Yes"
NfcMaybeRanges ==
    << <<768,772>>, <<774,780>>, <<783,783>>, <<785,785>>, <<787,788>>, <<795,795>>,
       <<803,808>>, <<813,814>>, <<816,817>>, <<824,824>>, <<832,837>>, <<884,884>>,
       <<894,894>>, <<903,903>>, <<1619,1621>>, <<2364,2364>>, <<2392,2399>>, <<2494,2494>>,
       <<2519,2519>>, <<2524,2525>>, <<2527,2527>>, <<2611,2611>>, <<2614,2614>>, <<2649,2651>>,
       <<2654,2654>>, <<2878,2878>>, <<2902,2903>>, <<2908,2909>>, <<3006,3006>>, <<3031,3031>>,
       <<3158,3158>>, <<3266,3266>>, <<3285,3286>>, <<3390,3390>>, <<3415,3415>>, <<3530,3530>>,
       <<3535,3535>>, <<3551,3551>>, <<3907,3907>>, <<3917,3917>>, <<3922,3922>>, <<3927,3927>>,
       <<3932,3932>>, <<3945,3945>>, <<3955,3955>>, <<3957,3958>>, <<3960,3960>>, <<3969,3969>>,
       <<3987,3987>>, <<3997,3997>>, <<4002,4002>>, <<4007,4007>>, <<4012,4012>>, <<4025,4025>>,
       <<4142,4142>>, <<4449,4469>>, <<4520,4546>>, <<6965,6965>>, <<8049,8049>>, <<8051,8051>>,
       <<8053,8053>>, <<8055,8055>>, <<8057,8057>>, <<8059,8059>>, <<8061,8061>>, <<8123,8123>>,
       <<8126,8126>>, <<8137,8137>>, <<8139,8139>>, <<8147,8147>>, <<8155,8155>>, <<8163,8163>>,
       <<8171,8171>>, <<8174,8175>>, <<8185,8185>>, <<8187,8187>>, <<8189,8189>>, <<8192,8193>>,
       <<8486,8486>>, <<8490,8491>>, <<9001,9002>>, <<10972,10972>>, <<12441,12442>>, <<63744,64013>>,
       <<64016,64016>>, <<64018,64018>>, <<64021,64030>>, <<64032,64032>>, <<64034,64034>>, <<64037,64038>>,
       <<64042,64109>>, <<64112,64217>>, <<64285,64285>>, <<64287,64287>>, <<64298,64310>>, <<64312,64316>>,
       <<64318,64318>>, <<64320,64321>>, <<64323,64324>>, <<64326,64334>>, <<69818,69818>>, <<69927,69927>>,
       <<70462,70462>>, <<70487,70487>>, <<70832,70832>>, <<70842,70842>>, <<70845,70845>>, <<71087,71087>>,
       <<71984,71984>>, <<119134,119140>>, <<119227,119232>>, <<194560,195101>> >>

\* is_normalized_quickcheck: no character that composition may change, and
\* the marks in canonical order
NfcQuickCheck(s) ==
    /\ \A i \in 1..Len(s) : ~InRanges(s[i], NfcMaybeRanges)
    /\ \A i \in 2..Len(s) :
            CombiningClass(s[i]) = 0 \/ CombiningClass(s[i - 1]) <= CombiningClass(s[i])

\* the first and the last place of the run of marks around the place i
RunFirst(classes, i) ==
    CHOOSE k \in 1..i : (\A j \in k..i : classes[j] # 0) /\ (k = 1 \/ classes[k - 1] = 0)
RunLast(classes, i) ==
    CHOOSE k \in i..Len(classes) :
        (\A j \in i..k : classes[j] # 0) /\ (k = Len(classes) \/ classes[k + 1] = 0)

\* canonical ordering: the place a character takes; the marks of a run are
\* sorted by class, those of one class staying in their order
Place(classes, i) ==
    IF classes[i] = 0 THEN i
    ELSE RunFirst(classes, i)
            + Cardinality({j \in RunFirst(classes, i)..RunLast(classes, i) :
                            \/ classes[j] < classes[i]
                            \/ classes[j] = classes[i] /\ j < i})

Reordered(s, classes) ==
    [k \in 1..Len(s) |-> s[CHOOSE i \in 1..Len(s) : Place(classes, i) = k]]

Decomposed(s) == Reordered(s, [i \in 1..Len(s) |-> CombiningClass(s[i])])

\* unicodedata.normalize("NFD", s)
Nfd(s) == Decomposed(Concat([i \in 1..Len(s) |-> NfdChar(s[i])]))

\* the composite of two characters, 0 when they have none
Composite(first, second) ==
    IF 4352 <= first /\ first <= 4370 /\ 4449 <= second /\ second <= 4469
    THEN 44032 + ((first - 4352) * 21 + (second - 4449)) * 28
    ELSE IF /\ 44032 <= first /\ first <= 55203 /\ (first - 44032) % 28 = 0
            /\ 4520 <= second /\ second <= 4546
    THEN first + (second - 4519)
    ELSE IF \E i \in 1..Len(CompositionTable) :
                CompositionTable[i][1] = first /\ CompositionTable[i][2] = second
    THEN CompositionTable[CHOOSE i \in 1..Len(CompositionTable) :
                CompositionTable[i][1] = first /\ CompositionTable[i][2] = second][3]
    ELSE 0

\* canonical composition: a character is combined with the last starter
\* when the two have a composite and no character stands between them that
\* is a starter or has a class that is not lower; `starter` is the place of
\* the last starter in `out` (0: none), `class` the class of the last
\* character that was not combined
RECURSIVE Composed(_, _, _, _)
Composed(s, out, starter, class) ==
    IF s = <<>> THEN out
    ELSE IF /\ starter > 0
            /\ class = 0 \/ class < CombiningClass(Head(s))
            /\ Composite(out[starter], Head(s)) # 0
    THEN Composed(Tail(s), [out EXCEPT ![starter] = Composite(out[starter], Head(s))],
                  starter, class)
    ELSE Composed(Tail(s), Append(out, Head(s)),
                  IF CombiningClass(Head(s)) = 0 THEN Len(out) + 1 ELSE starter,
                  CombiningClass(Head(s)))

\* unicodedata.normalize("NFC", s)
Nfc(s) == IF NfcQuickCheck(s) THEN s ELSE Composed(Nfd(s), <<>>, 0, 0)

(* the idna package: idna.encode, as urllib3 and requests call it *)

\* the code points of the class PVALID
PvalidRanges ==
    << <<45,45>>, <<48,57>>, <<97,122>>, <<223,246>>, <<248,255>>, <<257,257>>,
       <<259,259>>, <<261,261>>, <<263,263>>, <<265,265>>, <<267,267>>, <<269,269>>,
       <<271,271>>, <<273,273>>, <<275,275>>, <<277,277>>, <<279,279>>, <<281,281>>,
       <<283,283>>, <<285,285>>, <<287,287>>, <<289,289>>, <<291,291>>, <<293,293>>,
       <<295,295>>, <<297,297>>, <<299,299>>, <<301,301>>, <<303,303>>, <<305,305>>,
       <<309,309>>, <<311,312>>, <<314,314>>, <<316,316>>, <<318,318>>, <<322,322>>,
       <<324,324>>, <<326,326>>, <<328,328>>, <<331,331>>, <<333,333>>, <<335,335>>,
       <<337,337>>, <<339,339>>, <<341,341>>, <<343,343>>, <<345,345>>, <<347,347>>,
       <<349,349>>, <<351,351>>, <<353,353>>, <<355,355>>, <<357,357>>, <<359,359>>,
       <<361,361>>, <<363,363>>, <<365,365>>, <<367,367>>, <<369,369>>, <<371,371>>,
       <<373,373>>, <<375,375>>, <<378,378>>, <<380,380>>, <<382,382>>, <<384,384>>,
       <<387,387>>, <<389,389>>, <<392,392>>, <<396,397>>, <<402,402>>, <<405,405>>,
       <<409,411>>, <<414,414>>, <<417,417>>, <<419,419>>, <<421,421>>, <<424,424>>,
       <<426,427>>, <<429,429>>, <<432,432>>, <<436,436>>, <<438,438>>, <<441,443>>,
       <<445,451>>, <<462,462>>, <<464,464>>, <<466,466>>, <<468,468>>, <<470,470>>,
       <<472,472>>, <<474,474>>, <<476,477>>, <<479,479>>, <<481,481>>, <<483,483>>,
       <<485,485>>, <<487,487>>, <<489,489>>, <<491,491>>, <<493,493>>, <<495,496>>,
       <<501,501>>, <<505,505>>, <<507,507>>, <<509,509>>, <<511,511>>, <<513,513>>,
       <<515,515>>, <<517,517>>, <<519,519>>, <<521,521>>, <<523,523>>, <<525,525>>,
       <<527,527>>, <<529,529>>, <<531,531>>, <<533,533>>, <<535,535>>, <<537,537>>,
       <<539,539>>, <<541,541>>, <<543,543>>, <<545,545>>, <<547,547>>, <<549,549>>,
       <<551,551>>, <<553,553>>, <<555,555>>, <<557,557>>, <<559,559>>, <<561,561>>,
       <<563,569>>, <<572,572>>, <<575,576>>, <<578,578>>, <<583,583>>, <<585,585>>,
       <<587,587>>, <<589,589>>, <<591,687>>, <<697,705>>, <<710,721>>, <<748,748>>,
       <<750,750>>, <<768,831>>, <<834,834>>, <<838,846>>, <<848,879>>, <<881,881>>,
       <<883,883>>, <<887,887>>, <<891,893>>, <<912,912>>, <<940,974>>, <<983,983>>,
       <<985,985>>, <<987,987>>, <<989,989>>, <<991,991>>, <<993,993>>, <<995,995>>,
       <<997,997>>, <<999,999>>, <<1001,1001>>, <<1003,1003>>, <<1005,1005>>, <<1007,1007>>,
       <<1011,1011>>, <<1016,1016>>, <<1019,1020>>, <<1072,1119>>, <<1121,1121>>, <<1123,1123>>,
       <<1125,1125>>, <<1127,1127>>, <<1129,1129>>, <<1131,1131>>, <<1133,1133>>, <<1135,1135>>,
       <<1137,1137>>, <<1139,1139>>, <<1141,1141>>, <<1143,1143>>, <<1145,1145>>, <<1147,1147>>,
       <<1149,1149>>, <<1151,1151>>, <<1153,1153>>, <<1155,1159>>, <<1163,1163>>, <<1165,1165>>,
       <<1167,1167>>, <<1169,1169>>, <<1171,1171>>, <<1173,1173>>, <<1175,1175>>, <<1177,1177>>,
       <<1179,1179>>, <<1181,1181>>, <<1183,1183>>, <<1185,1185>>, <<1187,1187>>, <<1189,1189>>,
       <<1191,1191>>, <<1193,1193>>, <<1195,1195>>, <<1197,1197>>, <<1199,1199>>, <<1201,1201>>,
       <<1203,1203>>, <<1205,1205>>, <<1207,1207>>, <<1209,1209>>, <<1211,1211>>, <<1213,1213>>,
       <<1215,1215>>, <<1218,1218>>, <<1220,1220>>, <<1222,1222>>, <<1224,1224>>, <<1226,1226>>,
       <<1228,1228>>, <<1230,1231>>, <<1233,1233>>, <<1235,1235>>, <<1237,1237>>, <<1239,1239>>,
       <<1241,1241>>, <<1243,1243>>, <<1245,1245>>, <<1247,1247>>, <<1249,1249>>, <<1251,1251>>,
       <<1253,1253>>, <<1255,1255>>, <<1257,1257>>, <<1259,1259>>, <<1261,1261>>, <<1263,1263>>,
       <<1265,1265>>, <<1267,1267>>, <<1269,1269>>, <<1271,1271>>, <<1273,1273>>, <<1275,1275>>,
       <<1277,1277>>, <<1279,1279>>, <<1281,1281>>, <<1283,1283>>, <<1285,1285>>, <<1287,1287>>,
       <<1289,1289>>, <<1291,1291>>, <<1293,1293>>, <<1295,1295>>, <<1297,1297>>, <<1299,1299>>,
       <<1301,1301>>, <<1303,1303>>, <<1305,1305>>, <<1307,1307>>, <<1309,1309>>, <<1311,1311>>,
       <<1313,1313>>, <<1315,1315>>, <<1317,1317>>, <<1319,1319>>, <<1321,1321>>, <<1323,1323>>,
       <<1325,1325>>, <<1327,1327>>, <<1369,1369>>, <<1376,1414>>, <<1416,1416>>, <<1425,1469>>,
       <<1471,1471>>, <<1473,1474>>, <<1476,1477>>, <<1479,1479>>, <<1488,1514>>, <<1519,1522>>,
       <<1552,1562>>, <<1568,1599>>, <<1601,1631>>, <<1646,1652>>, <<1657,1747>>, <<1749,1756>>,
       <<1759,1768>>, <<1770,1775>>, <<1786,1791>>, <<1808,1866>>, <<1869,1969>>, <<1984,2037>>,
       <<2045,2045>>, <<2048,2093>>, <<2112,2139>>, <<2144,2154>>, <<2160,2183>>, <<2185,2190>>,
       <<2200,2273>>, <<2275,2391>>, <<2400,2403>>, <<2406,2415>>, <<2417,2435>>, <<2437,2444>>,
       <<2447,2448>>, <<2451,2472>>, <<2474,2480>>, <<2482,2482>>, <<2486,2489>>, <<2492,2500>>,
       <<2503,2504>>, <<2507,2510>>, <<2519,2519>>, <<2528,2531>>, <<2534,2545>>, <<2556,2556>>,
       <<2558,2558>>, <<2561,2563>>, <<2565,2570>>, <<2575,2576>>, <<2579,2600>>, <<2602,2608>>,
       <<2610,2610>>, <<2613,2613>>, <<2616,2617>>, <<2620,2620>>, <<2622,2626>>, <<2631,2632>>,
       <<2635,2637>>, <<2641,2641>>, <<2652,2652>>, <<2662,2677>>, <<2689,2691>>, <<2693,2701>>,
       <<2703,2705>>, <<2707,2728>>, <<2730,2736>>, <<2738,2739>>, <<2741,2745>>, <<2748,2757>>,
       <<2759,2761>>, <<2763,2765>>, <<2768,2768>>, <<2784,2787>>, <<2790,2799>>, <<2809,2815>>,
       <<2817,2819>>, <<2821,2828>>, <<2831,2832>>, <<2835,2856>>, <<2858,2864>>, <<2866,2867>>,
       <<2869,2873>>, <<2876,2884>>, <<2887,2888>>, <<2891,2893>>, <<2901,2903>>, <<2911,2915>>,
       <<2918,2927>>, <<2929,2929>>, <<2946,2947>>, <<2949,2954>>, <<2958,2960>>, <<2962,2965>>,
       <<2969,2970>>, <<2972,2972>>, <<2974,2975>>, <<2979,2980>>, <<2984,2986>>, <<2990,3001>>,
       <<3006,3010>>, <<3014,3016>>, <<3018,3021>>, <<3024,3024>>, <<3031,3031>>, <<3046,3055>>,
       <<3072,3084>>, <<3086,3088>>, <<3090,3112>>, <<3114,3129>>, <<3132,3140>>, <<3142,3144>>,
       <<3146,3149>>, <<3157,3158>>, <<3160,3162>>, <<3165,3165>>, <<3168,3171>>, <<3174,3183>>,
       <<3200,3203>>, <<3205,3212>>, <<3214,3216>>, <<3218,3240>>, <<3242,3251>>, <<3253,3257>>,
       <<3260,3268>>, <<3270,3272>>, <<3274,3277>>, <<3285,3286>>, <<3293,3294>>, <<3296,3299>>,
       <<3302,3311>>, <<3313,3315>>, <<3328,3340>>, <<3342,3344>>, <<3346,3396>>, <<3398,3400>>,
       <<3402,3406>>, <<3412,3415>>, <<3423,3427>>, <<3430,3439>>, <<3450,3455>>, <<3457,3459>>,
       <<3461,3478>>, <<3482,3505>>, <<3507,3515>>, <<3517,3517>>, <<3520,3526>>, <<3530,3530>>,
       <<3535,3540>>, <<3542,3542>>, <<3544,3551>>, <<3558,3567>>, <<3570,3571>>, <<3585,3634>>,
       <<3636,3642>>, <<3648,3662>>, <<3664,3673>>, <<3713,3714>>, <<3716,3716>>, <<3718,3722>>,
       <<3724,3747>>, <<3749,3749>>, <<3751,3762>>, <<3764,3773>>, <<3776,3780>>, <<3782,3782>>,
       <<3784,3790>>, <<3792,3801>>, <<3806,3807>>, <<3840,3840>>, <<3851,3851>>, <<3864,3865>>,
       <<3872,3881>>, <<3893,3893>>, <<3895,3895>>, <<3897,3897>>, <<3902,3906>>, <<3908,3911>>,
       <<3913,3916>>, <<3918,3921>>, <<3923,3926>>, <<3928,3931>>, <<3933,3944>>, <<3946,3948>>,
       <<3953,3954>>, <<3956,3956>>, <<3962,3968>>, <<3970,3972>>, <<3974,3986>>, <<3988,3991>>,
       <<3993,3996>>, <<3998,4001>>, <<4003,4006>>, <<4008,4011>>, <<4013,4024>>, <<4026,4028>>,
       <<4038,4038>>, <<4096,4169>>, <<4176,4253>>, <<4304,4346>>, <<4349,4351>>, <<4608,4680>>,
       <<4682,4685>>, <<4688,4694>>, <<4696,4696>>, <<4698,4701>>, <<4704,4744>>, <<4746,4749>>,
       <<4752,4784>>, <<4786,4789>>, <<4792,4798>>, <<4800,4800>>, <<4802,4805>>, <<4808,4822>>,
       <<4824,4880>>, <<4882,4885>>, <<4888,4954>>, <<4957,4959>>, <<4992,5007>>, <<5024,5109>>,
       <<5121,5740>>, <<5743,5759>>, <<5761,5786>>, <<5792,5866>>, <<5873,5880>>, <<5888,5909>>,
       <<5919,5940>>, <<5952,5971>>, <<5984,5996>>, <<5998,6000>>, <<6002,6003>>, <<6016,6067>>,
       <<6070,6099>>, <<6103,6103>>, <<6108,6109>>, <<6112,6121>>, <<6160,6169>>, <<6176,6264>>,
       <<6272,6314>>, <<6320,6389>>, <<6400,6430>>, <<6432,6443>>, <<6448,6459>>, <<6470,6509>>,
       <<6512,6516>>, <<6528,6571>>, <<6576,6601>>, <<6608,6617>>, <<6656,6683>>, <<6688,6750>>,
       <<6752,6780>>, <<6783,6793>>, <<6800,6809>>, <<6823,6823>>, <<6832,6845>>, <<6847,6862>>,
       <<6912,6988>>, <<6992,7001>>, <<7019,7027>>, <<7040,7155>>, <<7168,7223>>, <<7232,7241>>,
       <<7245,7293>>, <<7376,7378>>, <<7380,7418>>, <<7424,7467>>, <<7471,7471>>, <<7483,7483>>,
       <<7502,7502>>, <<7531,7543>>, <<7545,7578>>, <<7616,7679>>, <<7681,7681>>, <<7683,7683>>,
       <<7685,7685>>, <<7687,7687>>, <<7689,7689>>, <<7691,7691>>, <<7693,7693>>, <<7695,7695>>,
       <<7697,7697>>, <<7699,7699>>, <<7701,7701>>, <<7703,7703>>, <<7705,7705>>, <<7707,7707>>,
       <<7709,7709>>, <<7711,7711>>, <<7713,7713>>, <<7715,7715>>, <<7717,7717>>, <<7719,7719>>,
       <<7721,7721>>, <<7723,7723>>, <<7725,7725>>, <<7727,7727>>, <<7729,7729>>, <<7731,7731>>,
       <<7733,7733>>, <<7735,7735>>, <<7737,7737>>, <<7739,7739>>, <<7741,7741>>, <<7743,7743>>,
       <<7745,7745>>, <<7747,7747>>, <<7749,7749>>, <<7751,7751>>, <<7753,7753>>, <<7755,7755>>,
       <<7757,7757>>, <<7759,7759>>, <<7761,7761>>, <<7763,7763>>, <<7765,7765>>, <<7767,7767>>,
       <<7769,7769>>, <<7771,7771>>, <<7773,7773>>, <<7775,7775>>, <<7777,7777>>, <<7779,7779>>,
       <<7781,7781>>, <<7783,7783>>, <<7785,7785>>, <<7787,7787>>, <<7789,7789>>, <<7791,7791>>,
       <<7793,7793>>, <<7795,7795>>, <<7797,7797>>, <<7799,7799>>, <<7801,7801>>, <<7803,7803>>,
       <<7805,7805>>, <<7807,7807>>, <<7809,7809>>, <<7811,7811>>, <<7813,7813>>, <<7815,7815>>,
       <<7817,7817>>, <<7819,7819>>, <<7821,7821>>, <<7823,7823>>, <<7825,7825>>, <<7827,7827>>,
       <<7829,7833>>, <<7836,7837>>, <<7839,7839>>, <<7841,7841>>, <<7843,7843>>, <<7845,7845>>,
       <<7847,7847>>, <<7849,7849>>, <<7851,7851>>, <<7853,7853>>, <<7855,7855>>, <<7857,7857>>,
       <<7859,7859>>, <<7861,7861>>, <<7863,7863>>, <<7865,7865>>, <<7867,7867>>, <<7869,7869>>,
       <<7871,7871>>, <<7873,7873>>, <<7875,7875>>, <<7877,7877>>, <<7879,7879>>, <<7881,7881>>,
       <<7883,7883>>, <<7885,7885>>, <<7887,7887>>, <<7889,7889>>, <<7891,7891>>, <<7893,7893>>,
       <<7895,7895>>, <<7897,7897>>, <<7899,7899>>, <<7901,7901>>, <<7903,7903>>, <<7905,7905>>,
       <<7907,7907>>, <<7909,7909>>, <<7911,7911>>, <<7913,7913>>, <<7915,7915>>, <<7917,7917>>,
       <<7919,7919>>, <<7921,7921>>, <<7923,7923>>, <<7925,7925>>, <<7927,7927>>, <<7929,7929>>,
       <<7931,7931>>, <<7933,7933>>, <<7935,7943>>, <<7952,7957>>, <<7968,7975>>, <<7984,7991>>,
       <<8000,8005>>, <<8016,8023>>, <<8032,8039>>, <<8048,8048>>, <<8050,8050>>, <<8052,8052>>,
       <<8054,8054>>, <<8056,8056>>, <<8058,8058>>, <<8060,8060>>, <<8112,8113>>, <<8118,8118>>,
       <<8134,8134>>, <<8144,8146>>, <<8150,8151>>, <<8160,8162>>, <<8164,8167>>, <<8182,8182>>,
       <<8526,8526>>, <<8580,8580>>, <<11312,11359>>, <<11361,11361>>, <<11365,11366>>, <<11368,11368>>,
       <<11370,11370>>, <<11372,11372>>, <<11377,11377>>, <<11379,11380>>, <<11382,11387>>, <<11393,11393>>,
       <<11395,11395>>, <<11397,11397>>, <<11399,11399>>, <<11401,11401>>, <<11403,11403>>, <<11405,11405>>,
       <<11407,11407>>, <<11409,11409>>, <<11411,11411>>, <<11413,11413>>, <<11415,11415>>, <<11417,11417>>,
       <<11419,11419>>, <<11421,11421>>, <<11423,11423>>, <<11425,11425>>, <<11427,11427>>, <<11429,11429>>,
       <<11431,11431>>, <<11433,11433>>, <<11435,11435>>, <<11437,11437>>, <<11439,11439>>, <<11441,11441>>,
       <<11443,11443>>, <<11445,11445>>, <<11447,11447>>, <<11449,11449>>, <<11451,11451>>, <<11453,11453>>,
       <<11455,11455>>, <<11457,11457>>, <<11459,11459>>, <<11461,11461>>, <<11463,11463>>, <<11465,11465>>,
       <<11467,11467>>, <<11469,11469>>, <<11471,11471>>, <<11473,11473>>, <<11475,11475>>, <<11477,11477>>,
       <<11479,11479>>, <<11481,11481>>, <<11483,11483>>, <<11485,11485>>, <<11487,11487>>, <<11489,11489>>,
       <<11491,11492>>, <<11500,11500>>, <<11502,11505>>, <<11507,11507>>, <<11520,11557>>, <<11559,11559>>,
       <<11565,11565>>, <<11568,11623>>, <<11647,11670>>, <<11680,11686>>, <<11688,11694>>, <<11696,11702>>,
       <<11704,11710>>, <<11712,11718>>, <<11720,11726>>, <<11728,11734>>, <<11736,11742>>, <<11744,11775>>,
       <<11823,11823>>, <<12293,12295>>, <<12330,12333>>, <<12348,12348>>, <<12353,12438>>, <<12441,12442>>,
       <<12445,12446>>, <<12449,12538>>, <<12540,12542>>, <<12549,12591>>, <<12704,12735>>, <<12784,12799>>,
       <<13312,19903>>, <<19968,42124>>, <<42192,42237>>, <<42240,42508>>, <<42512,42539>>, <<42561,42561>>,
       <<42563,42563>>, <<42565,42565>>, <<42567,42567>>, <<42569,42569>>, <<42571,42571>>, <<42573,42573>>,
       <<42575,42575>>, <<42577,42577>>, <<42579,42579>>, <<42581,42581>>, <<42583,42583>>, <<42585,42585>>,
       <<42587,42587>>, <<42589,42589>>, <<42591,42591>>, <<42593,42593>>, <<42595,42595>>, <<42597,42597>>,
       <<42599,42599>>, <<42601,42601>>, <<42603,42603>>, <<42605,42607>>, <<42612,42621>>, <<42623,42623>>,
       <<42625,42625>>, <<42627,42627>>, <<42629,42629>>, <<42631,42631>>, <<42633,42633>>, <<42635,42635>>,
       <<42637,42637>>, <<42639,42639>>, <<42641,42641>>, <<42643,42643>>, <<42645,42645>>, <<42647,42647>>,
       <<42649,42649>>, <<42651,42651>>, <<42654,42725>>, <<42736,42737>>, <<42775,42783>>, <<42787,42787>>,
       <<42789,42789>>, <<42791,42791>>, <<42793,42793>>, <<42795,42795>>, <<42797,42797>>, <<42799,42801>>,
       <<42803,42803>>, <<42805,42805>>, <<42807,42807>>, <<42809,42809>>, <<42811,42811>>, <<42813,42813>>,
       <<42815,42815>>, <<42817,42817>>, <<42819,42819>>, <<42821,42821>>, <<42823,42823>>, <<42825,42825>>,
       <<42827,42827>>, <<42829,42829>>, <<42831,42831>>, <<42833,42833>>, <<42835,42835>>, <<42837,42837>>,
       <<42839,42839>>, <<42841,42841>>, <<42843,42843>>, <<42845,42845>>, <<42847,42847>>, <<42849,42849>>,
       <<42851,42851>>, <<42853,42853>>, <<42855,42855>>, <<42857,42857>>, <<42859,42859>>, <<42861,42861>>,
       <<42863,42863>>, <<42865,42872>>, <<42874,42874>>, <<42876,42876>>, <<42879,42879>>, <<42881,42881>>,
       <<42883,42883>>, <<42885,42885>>, <<42887,42888>>, <<42892,42892>>, <<42894,42895>>, <<42897,42897>>,
       <<42899,42901>>, <<42903,42903>>, <<42905,42905>>, <<42907,42907>>, <<42909,42909>>, <<42911,42911>>,
       <<42913,42913>>, <<42915,42915>>, <<42917,42917>>, <<42919,42919>>, <<42921,42921>>, <<42927,42927>>,
       <<42933,42933>>, <<42935,42935>>, <<42937,42937>>, <<42939,42939>>, <<42941,42941>>, <<42943,42943>>,
       <<42945,42945>>, <<42947,42947>>, <<42952,42952>>, <<42954,42954>>, <<42961,42961>>, <<42963,42963>>,
       <<42965,42965>>, <<42967,42967>>, <<42969,42969>>, <<42994,42996>>, <<42998,42999>>, <<43002,43047>>,
       <<43052,43052>>, <<43072,43123>>, <<43136,43205>>, <<43216,43225>>, <<43232,43255>>, <<43259,43259>>,
       <<43261,43309>>, <<43312,43347>>, <<43392,43456>>, <<43471,43481>>, <<43488,43518>>, <<43520,43574>>,
       <<43584,43597>>, <<43600,43609>>, <<43616,43638>>, <<43642,43714>>, <<43739,43741>>, <<43744,43759>>,
       <<43762,43766>>, <<43777,43782>>, <<43785,43790>>, <<43793,43798>>, <<43808,43814>>, <<43816,43822>>,
       <<43824,43866>>, <<43872,43880>>, <<43968,44010>>, <<44012,44013>>, <<44016,44025>>, <<44032,55203>>,
       <<64014,64015>>, <<64017,64017>>, <<64019,64020>>, <<64031,64031>>, <<64033,64033>>, <<64035,64036>>,
       <<64039,64041>>, <<64286,64286>>, <<65056,65071>>, <<65139,65139>>, <<65536,65547>>, <<65549,65574>>,
       <<65576,65594>>, <<65596,65597>>, <<65599,65613>>, <<65616,65629>>, <<65664,65786>>, <<66045,66045>>,
       <<66176,66204>>, <<66208,66256>>, <<66272,66272>>, <<66304,66335>>, <<66349,66368>>, <<66370,66377>>,
       <<66384,66426>>, <<66432,66461>>, <<66464,66499>>, <<66504,66511>>, <<66600,66717>>, <<66720,66729>>,
       <<66776,66811>>, <<66816,66855>>, <<66864,66915>>, <<66967,66977>>, <<66979,66993>>, <<66995,67001>>,
       <<67003,67004>>, <<67072,67382>>, <<67392,67413>>, <<67424,67431>>, <<67456,67461>>, <<67463,67504>>,
       <<67506,67514>>, <<67584,67589>>, <<67592,67592>>, <<67594,67637>>, <<67639,67640>>, <<67644,67644>>,
       <<67647,67669>>, <<67680,67702>>, <<67712,67742>>, <<67808,67826>>, <<67828,67829>>, <<67840,67861>>,
       <<67872,67897>>, <<67968,68023>>, <<68030,68031>>, <<68096,68099>>, <<68101,68102>>, <<68108,68115>>,
       <<68117,68119>>, <<68121,68149>>, <<68152,68154>>, <<68159,68159>>, <<68192,68220>>, <<68224,68252>>,
       <<68288,68295>>, <<68297,68326>>, <<68352,68405>>, <<68416,68437>>, <<68448,68466>>, <<68480,68497>>,
       <<68608,68680>>, <<68800,68850>>, <<68864,68903>>, <<68912,68921>>, <<69248,69289>>, <<69291,69292>>,
       <<69296,69297>>, <<69373,69404>>, <<69415,69415>>, <<69424,69456>>, <<69488,69509>>, <<69552,69572>>,
       <<69600,69622>>, <<69632,69702>>, <<69734,69749>>, <<69759,69818>>, <<69826,69826>>, <<69840,69864>>,
       <<69872,69881>>, <<69888,69940>>, <<69942,69951>>, <<69956,69959>>, <<69968,70003>>, <<70006,70006>>,
       <<70016,70084>>, <<70089,70092>>, <<70094,70106>>, <<70108,70108>>, <<70144,70161>>, <<70163,70199>>,
       <<70206,70209>>, <<70272,70278>>, <<70280,70280>>, <<70282,70285>>, <<70287,70301>>, <<70303,70312>>,
       <<70320,70378>>, <<70384,70393>>, <<70400,70403>>, <<70405,70412>>, <<70415,70416>>, <<70419,70440>>,
       <<70442,70448>>, <<70450,70451>>, <<70453,70457>>, <<70459,70468>>, <<70471,70472>>, <<70475,70477>>,
       <<70480,70480>>, <<70487,70487>>, <<70493,70499>>, <<70502,70508>>, <<70512,70516>>, <<70656,70730>>,
       <<70736,70745>>, <<70750,70753>>, <<70784,70853>>, <<70855,70855>>, <<70864,70873>>, <<71040,71093>>,
       <<71096,71104>>, <<71128,71133>>, <<71168,71232>>, <<71236,71236>>, <<71248,71257>>, <<71296,71352>>,
       <<71360,71369>>, <<71424,71450>>, <<71453,71467>>, <<71472,71481>>, <<71488,71494>>, <<71680,71738>>,
       <<71872,71913>>, <<71935,71942>>, <<71945,71945>>, <<71948,71955>>, <<71957,71958>>, <<71960,71989>>,
       <<71991,71992>>, <<71995,72003>>, <<72016,72025>>, <<72096,72103>>, <<72106,72151>>, <<72154,72161>>,
       <<72163,72164>>, <<72192,72254>>, <<72263,72263>>, <<72272,72345>>, <<72349,72349>>, <<72368,72440>>,
       <<72704,72712>>, <<72714,72758>>, <<72760,72768>>, <<72784,72793>>, <<72818,72847>>, <<72850,72871>>,
       <<72873,72886>>, <<72960,72966>>, <<72968,72969>>, <<72971,73014>>, <<73018,73018>>, <<73020,73021>>,
       <<73023,73031>>, <<73040,73049>>, <<73056,73061>>, <<73063,73064>>, <<73066,73102>>, <<73104,73105>>,
       <<73107,73112>>, <<73120,73129>>, <<73440,73462>>, <<73472,73488>>, <<73490,73530>>, <<73534,73538>>,
       <<73552,73561>>, <<73648,73648>>, <<73728,74649>>, <<74880,75075>>, <<77712,77808>>, <<77824,78895>>,
       <<78912,78933>>, <<82944,83526>>, <<92160,92728>>, <<92736,92766>>, <<92768,92777>>, <<92784,92862>>,
       <<92864,92873>>, <<92880,92909>>, <<92912,92916>>, <<92928,92982>>, <<92992,92995>>, <<93008,93017>>,
       <<93027,93047>>, <<93053,93071>>, <<93792,93823>>, <<93952,94026>>, <<94031,94087>>, <<94095,94111>>,
       <<94176,94177>>, <<94179,94180>>, <<94192,94193>>, <<94208,100343>>, <<100352,101589>>, <<101632,101640>>,
       <<110576,110579>>, <<110581,110587>>, <<110589,110590>>, <<110592,110882>>, <<110898,110898>>, <<110928,110930>>,
       <<110933,110933>>, <<110948,110951>>, <<110960,111355>>, <<113664,113770>>, <<113776,113788>>, <<113792,113800>>,
       <<113808,113817>>, <<113821,113822>>, <<118528,118573>>, <<118576,118598>>, <<121344,121398>>, <<121403,121452>>,
       <<121461,121461>>, <<121476,121476>>, <<121499,121503>>, <<121505,121519>>, <<122624,122654>>, <<122661,122666>>,
       <<122880,122886>>, <<122888,122904>>, <<122907,122913>>, <<122915,122916>>, <<122918,122922>>, <<122928,122989>>,
       <<123023,123023>>, <<123136,123180>>, <<123184,123197>>, <<123200,123209>>, <<123214,123214>>, <<123536,123566>>,
       <<123584,123641>>, <<124112,124153>>, <<124896,124902>>, <<124904,124907>>, <<124909,124910>>, <<124912,124926>>,
       <<124928,125124>>, <<125136,125142>>, <<125218,125259>>, <<125264,125273>>, <<131072,173791>>, <<173824,177977>>,
       <<177984,178205>>, <<178208,183969>>, <<183984,191456>>, <<196608,201546>>, <<201552,205743>> >>

\* the code points of the class CONTEXTO
ContextoRanges ==
    << <<183,183>>, <<885,885>>, <<1523,1524>>, <<1632,1641>>, <<1776,1785>>, <<12539,12539>> >>

\* the joining type of the characters that have one: <<first, last, type>>
JoiningRanges ==
    << <<1536,1541,"U">>, <<1544,1544,"U">>, <<1547,1547,"U">>, <<1568,1568,"D">>, <<1569,1569,"U">>, <<1570,1573,"R">>,
       <<1574,1574,"D">>, <<1575,1575,"R">>, <<1576,1576,"D">>, <<1577,1577,"R">>, <<1578,1582,"D">>, <<1583,1586,"R">>,
       <<1587,1599,"D">>, <<1600,1600,"C">>, <<1601,1607,"D">>, <<1608,1608,"R">>, <<1609,1610,"D">>, <<1646,1647,"D">>,
       <<1649,1651,"R">>, <<1652,1652,"U">>, <<1653,1655,"R">>, <<1656,1671,"D">>, <<1672,1689,"R">>, <<1690,1727,"D">>,
       <<1728,1728,"R">>, <<1729,1730,"D">>, <<1731,1739,"R">>, <<1740,1740,"D">>, <<1741,1741,"R">>, <<1742,1742,"D">>,
       <<1743,1743,"R">>, <<1744,1745,"D">>, <<1746,1747,"R">>, <<1749,1749,"R">>, <<1757,1757,"U">>, <<1774,1775,"R">>,
       <<1786,1788,"D">>, <<1791,1791,"D">>, <<1807,1807,"T">>, <<1808,1808,"R">>, <<1810,1812,"D">>, <<1813,1817,"R">>,
       <<1818,1821,"D">>, <<1822,1822,"R">>, <<1823,1831,"D">>, <<1832,1832,"R">>, <<1833,1833,"D">>, <<1834,1834,"R">>,
       <<1835,1835,"D">>, <<1836,1836,"R">>, <<1837,1838,"D">>, <<1839,1839,"R">>, <<1869,1869,"R">>, <<1870,1880,"D">>,
       <<1881,1883,"R">>, <<1884,1898,"D">>, <<1899,1900,"R">>, <<1901,1904,"D">>, <<1905,1905,"R">>, <<1906,1906,"D">>,
       <<1907,1908,"R">>, <<1909,1911,"D">>, <<1912,1913,"R">>, <<1914,1919,"D">>, <<1994,2026,"D">>, <<2042,2042,"C">>,
       <<2112,2112,"R">>, <<2113,2117,"D">>, <<2118,2119,"R">>, <<2120,2120,"D">>, <<2121,2121,"R">>, <<2122,2131,"D">>,
       <<2132,2132,"R">>, <<2133,2133,"D">>, <<2134,2136,"R">>, <<2144,2144,"D">>, <<2145,2145,"U">>, <<2146,2149,"D">>,
       <<2150,2150,"U">>, <<2151,2151,"R">>, <<2152,2152,"D">>, <<2153,2154,"R">>, <<2160,2178,"R">>, <<2179,2181,"C">>,
       <<2182,2182,"D">>, <<2183,2184,"U">>, <<2185,2189,"D">>, <<2190,2190,"R">>, <<2192,2193,"U">>, <<2208,2217,"D">>,
       <<2218,2220,"R">>, <<2221,2221,"U">>, <<2222,2222,"R">>, <<2223,2224,"D">>, <<2225,2226,"R">>, <<2227,2232,"D">>,
       <<2233,2233,"R">>, <<2234,2248,"D">>, <<2274,2274,"U">>, <<6150,6150,"U">>, <<6151,6151,"D">>, <<6154,6154,"C">>,
       <<6158,6158,"U">>, <<6176,6264,"D">>, <<6272,6276,"U">>, <<6277,6278,"T">>, <<6279,6312,"D">>, <<6314,6314,"D">>,
       <<8204,8204,"U">>, <<8205,8205,"C">>, <<8239,8239,"U">>, <<8294,8297,"U">>, <<43072,43121,"D">>, <<43122,43122,"L">>,
       <<43123,43123,"U">>, <<68288,68292,"D">>, <<68293,68293,"R">>, <<68294,68294,"U">>, <<68295,68295,"R">>, <<68296,68296,"U">>,
       <<68297,68298,"R">>, <<68299,68300,"U">>, <<68301,68301,"L">>, <<68302,68306,"R">>, <<68307,68310,"D">>, <<68311,68311,"L">>,
       <<68312,68316,"D">>, <<68317,68317,"R">>, <<68318,68320,"D">>, <<68321,68321,"R">>, <<68322,68323,"U">>, <<68324,68324,"R">>,
       <<68331,68334,"D">>, <<68335,68335,"R">>, <<68480,68480,"D">>, <<68481,68481,"R">>, <<68482,68482,"D">>, <<68483,68485,"R">>,
       <<68486,68488,"D">>, <<68489,68489,"R">>, <<68490,68491,"D">>, <<68492,68492,"R">>, <<68493,68493,"D">>, <<68494,68495,"R">>,
       <<68496,68496,"D">>, <<68497,68497,"R">>, <<68521,68524,"R">>, <<68525,68526,"D">>, <<68527,68527,"U">>, <<68864,68864,"L">>,
       <<68865,68897,"D">>, <<68898,68898,"R">>, <<68899,68899,"D">>, <<69424,69426,"D">>, <<69427,69427,"R">>, <<69428,69444,"D">>,
       <<69445,69445,"U">>, <<69457,69459,"D">>, <<69460,69460,"R">>, <<69488,69491,"D">>, <<69492,69493,"R">>, <<69494,69505,"D">>,
       <<69552,69552,"D">>, <<69553,69553,"U">>, <<69554,69555,"D">>, <<69556,69558,"R">>, <<69559,69559,"U">>, <<69560,69560,"D">>,
       <<69561,69562,"R">>, <<69563,69564,"D">>, <<69565,69565,"R">>, <<69566,69567,"D">>, <<69568,69568,"U">>, <<69569,69569,"D">>,
       <<69570,69571,"R">>, <<69572,69572,"D">>, <<69573,69576,"U">>, <<69577,69577,"R">>, <<69578,69578,"D">>, <<69579,69579,"L">>,
       <<69821,69821,"U">>, <<69837,69837,"U">>, <<125184,125251,"D">>, <<125259,125259,"T">> >>

\* the characters of canonical combining class 9 (virama)
ViramaRanges ==
    << <<2381,2381>>, <<2509,2509>>, <<2637,2637>>, <<2765,2765>>, <<2893,2893>>, <<3021,3021>>, <<3149,3149>>, <<3277,3277>>,
       <<3387,3388>>, <<3405,3405>>, <<3530,3530>>, <<3642,3642>>, <<3770,3770>>, <<3972,3972>>, <<4153,4154>>, <<5908,5909>>,
       <<5940,5940>>, <<6098,6098>>, <<6752,6752>>, <<6980,6980>>, <<7082,7083>>, <<7154,7155>>, <<11647,11647>>, <<43014,43014>>,
       <<43052,43052>>, <<43204,43204>>, <<43347,43347>>, <<43456,43456>>, <<43766,43766>>, <<44013,44013>>, <<68159,68159>>, <<69702,69702>>,
       <<69744,69744>>, <<69759,69759>>, <<69817,69817>>, <<69939,69940>>, <<70080,70080>>, <<70197,70197>>, <<70378,70378>>, <<70477,70477>>,
       <<70722,70722>>, <<70850,70850>>, <<71103,71103>>, <<71231,71231>>, <<71350,71350>>, <<71467,71467>>, <<71737,71737>>, <<71997,71998>>,
       <<72160,72160>>, <<72244,72244>>, <<72263,72263>>, <<72345,72345>>, <<72767,72767>>, <<73028,73029>>, <<73111,73111>> >>

ScriptGreek ==
    << <<880,883>>, <<885,887>>, <<890,893>>, <<895,895>>, <<900,900>>, <<902,902>>,
       <<904,906>>, <<908,908>>, <<910,929>>, <<931,993>>, <<1008,1023>>, <<7462,7466>>,
       <<7517,7521>>, <<7526,7530>>, <<7615,7615>>, <<7936,7957>>, <<7960,7965>>, <<7968,8005>>,
       <<8008,8013>>, <<8016,8023>>, <<8025,8025>>, <<8027,8027>>, <<8029,8029>>, <<8031,8061>>,
       <<8064,8116>>, <<8118,8132>>, <<8134,8147>>, <<8150,8155>>, <<8157,8175>>, <<8178,8180>>,
       <<8182,8190>>, <<8486,8486>>, <<43877,43877>>, <<65856,65934>>, <<65952,65952>>, <<119296,119365>> >>
ScriptHebrew ==
    << <<1425,1479>>, <<1488,1514>>, <<1519,1524>>, <<64285,64310>>, <<64312,64316>>, <<64318,64318>>,
       <<64320,64321>>, <<64323,64324>>, <<64326,64335>> >>
ScriptHiragana ==
    << <<12353,12438>>, <<12445,12447>>, <<110593,110879>>, <<110898,110898>>, <<110928,110930>>, <<127488,127488>> >>
ScriptKatakana ==
    << <<12449,12538>>, <<12541,12543>>, <<12784,12799>>, <<13008,13054>>, <<13056,13143>>, <<65382,65391>>,
       <<65393,65437>>, <<110576,110579>>, <<110581,110587>>, <<110589,110590>>, <<110592,110592>>, <<110880,110882>>,
       <<110933,110933>>, <<110948,110951>> >>
ScriptHan ==
    << <<11904,11929>>, <<11931,12019>>, <<12032,12245>>, <<12293,12293>>, <<12295,12295>>, <<12321,12329>>,
       <<12344,12347>>, <<13312,19903>>, <<19968,40959>>, <<63744,64109>>, <<64112,64217>>, <<94178,94179>>,
       <<94192,94193>>, <<131072,173791>>, <<173824,177977>>, <<177984,178205>>, <<178208,183969>>, <<183984,191456>>,
       <<194560,195101>>, <<196608,201546>>, <<201552,205743>> >>

\* the characters of general category M (marks)
MarkRanges ==
    << <<768,879>>, <<1155,1161>>, <<1425,1469>>, <<1471,1471>>, <<1473,1474>>, <<1476,1477>>,
       <<1479,1479>>, <<1552,1562>>, <<1611,1631>>, <<1648,1648>>, <<1750,1756>>, <<1759,1764>>,
       <<1767,1768>>, <<1770,1773>>, <<1809,1809>>, <<1840,1866>>, <<1958,1968>>, <<2027,2035>>,
       <<2045,2045>>, <<2070,2073>>, <<2075,2083>>, <<2085,2087>>, <<2089,2093>>, <<2137,2139>>,
       <<2200,2207>>, <<2250,2273>>, <<2275,2307>>, <<2362,2364>>, <<2366,2383>>, <<2385,2391>>,
       <<2402,2403>>, <<2433,2435>>, <<2492,2492>>, <<2494,2500>>, <<2503,2504>>, <<2507,2509>>,
       <<2519,2519>>, <<2530,2531>>, <<2558,2558>>, <<2561,2563>>, <<2620,2620>>, <<2622,2626>>,
       <<2631,2632>>, <<2635,2637>>, <<2641,2641>>, <<2672,2673>>, <<2677,2677>>, <<2689,2691>>,
       <<2748,2748>>, <<2750,2757>>, <<2759,2761>>, <<2763,2765>>, <<2786,2787>>, <<2810,2815>>,
       <<2817,2819>>, <<2876,2876>>, <<2878,2884>>, <<2887,2888>>, <<2891,2893>>, <<2901,2903>>,
       <<2914,2915>>, <<2946,2946>>, <<3006,3010>>, <<3014,3016>>, <<3018,3021>>, <<3031,3031>>,
       <<3072,3076>>, <<3132,3132>>, <<3134,3140>>, <<3142,3144>>, <<3146,3149>>, <<3157,3158>>,
       <<3170,3171>>, <<3201,3203>>, <<3260,3260>>, <<3262,3268>>, <<3270,3272>>, <<3274,3277>>,
       <<3285,3286>>, <<3298,3299>>, <<3328,3331>>, <<3387,3388>>, <<3390,3396>>, <<3398,3400>>,
       <<3402,3405>>, <<3415,3415>>, <<3426,3427>>, <<3457,3459>>, <<3530,3530>>, <<3535,3540>>,
       <<3542,3542>>, <<3544,3551>>, <<3570,3571>>, <<3633,3633>>, <<3636,3642>>, <<3655,3662>>,
       <<3761,3761>>, <<3764,3772>>, <<3784,3789>>, <<3864,3865>>, <<3893,3893>>, <<3895,3895>>,
       <<3897,3897>>, <<3902,3903>>, <<3953,3972>>, <<3974,3975>>, <<3981,3991>>, <<3993,4028>>,
       <<4038,4038>>, <<4139,4158>>, <<4182,4185>>, <<4190,4192>>, <<4194,4196>>, <<4199,4205>>,
       <<4209,4212>>, <<4226,4237>>, <<4239,4239>>, <<4250,4253>>, <<4957,4959>>, <<5906,5909>>,
       <<5938,5940>>, <<5970,5971>>, <<6002,6003>>, <<6068,6099>>, <<6109,6109>>, <<6155,6157>>,
       <<6159,6159>>, <<6277,6278>>, <<6313,6313>>, <<6432,6443>>, <<6448,6459>>, <<6679,6683>>,
       <<6741,6750>>, <<6752,6780>>, <<6783,6783>>, <<6832,6862>>, <<6912,6916>>, <<6964,6980>>,
       <<7019,7027>>, <<7040,7042>>, <<7073,7085>>, <<7142,7155>>, <<7204,7223>>, <<7376,7378>>,
       <<7380,7400>>, <<7405,7405>>, <<7412,7412>>, <<7415,7417>>, <<7616,7679>>, <<8400,8432>>,
       <<11503,11505>>, <<11647,11647>>, <<11744,11775>>, <<12330,12335>>, <<12441,12442>>, <<42607,42610>>,
       <<42612,42621>>, <<42654,42655>>, <<42736,42737>>, <<43010,43010>>, <<43014,43014>>, <<43019,43019>>,
       <<43043,43047>>, <<43052,43052>>, <<43136,43137>>, <<43188,43205>>, <<43232,43249>>, <<43263,43263>>,
       <<43302,43309>>, <<43335,43347>>, <<43392,43395>>, <<43443,43456>>, <<43493,43493>>, <<43561,43574>>,
       <<43587,43587>>, <<43596,43597>>, <<43643,43645>>, <<43696,43696>>, <<43698,43700>>, <<43703,43704>>,
       <<43710,43711>>, <<43713,43713>>, <<43755,43759>>, <<43765,43766>>, <<44003,44010>>, <<44012,44013>>,
       <<64286,64286>>, <<65024,65039>>, <<65056,65071>>, <<66045,66045>>, <<66272,66272>>, <<66422,66426>>,
       <<68097,68099>>, <<68101,68102>>, <<68108,68111>>, <<68152,68154>>, <<68159,68159>>, <<68325,68326>>,
       <<68900,68903>>, <<69291,69292>>, <<69446,69456>>, <<69506,69509>>, <<69632,69634>>, <<69688,69702>>,
       <<69744,69744>>, <<69747,69748>>, <<69759,69762>>, <<69808,69818>>, <<69826,69826>>, <<69888,69890>>,
       <<69927,69940>>, <<69957,69958>>, <<70003,70003>>, <<70016,70018>>, <<70067,70080>>, <<70089,70092>>,
       <<70094,70095>>, <<70188,70199>>, <<70206,70206>>, <<70367,70378>>, <<70400,70403>>, <<70459,70460>>,
       <<70462,70468>>, <<70471,70472>>, <<70475,70477>>, <<70487,70487>>, <<70498,70499>>, <<70502,70508>>,
       <<70512,70516>>, <<70709,70726>>, <<70750,70750>>, <<70832,70851>>, <<71087,71093>>, <<71096,71104>>,
       <<71132,71133>>, <<71216,71232>>, <<71339,71351>>, <<71453,71467>>, <<71724,71738>>, <<71984,71989>>,
       <<71991,71992>>, <<71995,71998>>, <<72000,72000>>, <<72002,72003>>, <<72145,72151>>, <<72154,72160>>,
       <<72164,72164>>, <<72193,72202>>, <<72243,72249>>, <<72251,72254>>, <<72263,72263>>, <<72273,72283>>,
       <<72330,72345>>, <<72751,72758>>, <<72760,72767>>, <<72850,72871>>, <<72873,72886>>, <<73009,73014>>,
       <<73018,73018>>, <<73020,73021>>, <<73023,73029>>, <<73031,73031>>, <<73098,73102>>, <<73104,73105>>,
       <<73107,73111>>, <<73459,73462>>, <<92912,92916>>, <<92976,92982>>, <<94031,94031>>, <<94033,94087>>,
       <<94095,94098>>, <<94180,94180>>, <<94192,94193>>, <<113821,113822>>, <<118528,118573>>, <<118576,118598>>,
       <<119141,119145>>, <<119149,119154>>, <<119163,119170>>, <<119173,119179>>, <<119210,119213>>, <<119362,119364>>,
       <<121344,121398>>, <<121403,121452>>, <<121461,121461>>, <<121476,121476>>, <<121499,121503>>, <<121505,121519>>,
       <<122880,122886>>, <<122888,122904>>, <<122907,122913>>, <<122915,122916>>, <<122918,122922>>, <<123184,123190>>,
       <<123566,123566>>, <<123628,123631>>, <<125136,125142>>, <<125252,125258>>, <<917760,917999>> >>

\* unicodedata.bidirectional for the characters a label may have:
\* <<first, last, class>>; the class is empty for a character the Unicode
\* database of the interpreter does not know
BidiRanges ==
    << <<45,45,"ES">>, <<48,57,"EN">>, <<97,122,"L">>, <<183,183,"ON">>, <<223,246,"L">>, <<248,255,"L">>,
       <<257,257,"L">>, <<259,259,"L">>, <<261,261,"L">>, <<263,263,"L">>, <<265,265,"L">>, <<267,267,"L">>,
       <<269,269,"L">>, <<271,271,"L">>, <<273,273,"L">>, <<275,275,"L">>, <<277,277,"L">>, <<279,279,"L">>,
       <<281,281,"L">>, <<283,283,"L">>, <<285,285,"L">>, <<287,287,"L">>, <<289,289,"L">>, <<291,291,"L">>,
       <<293,293,"L">>, <<295,295,"L">>, <<297,297,"L">>, <<299,299,"L">>, <<301,301,"L">>, <<303,303,"L">>,
       <<305,305,"L">>, <<309,309,"L">>, <<311,312,"L">>, <<314,314,"L">>, <<316,316,"L">>, <<318,318,"L">>,
       <<322,322,"L">>, <<324,324,"L">>, <<326,326,"L">>, <<328,328,"L">>, <<331,331,"L">>, <<333,333,"L">>,
       <<335,335,"L">>, <<337,337,"L">>, <<339,339,"L">>, <<341,341,"L">>, <<343,343,"L">>, <<345,345,"L">>,
       <<347,347,"L">>, <<349,349,"L">>, <<351,351,"L">>, <<353,353,"L">>, <<355,355,"L">>, <<357,357,"L">>,
       <<359,359,"L">>, <<361,361,"L">>, <<363,363,"L">>, <<365,365,"L">>, <<367,367,"L">>, <<369,369,"L">>,
       <<371,371,"L">>, <<373,373,"L">>, <<375,375,"L">>, <<378,378,"L">>, <<380,380,"L">>, <<382,382,"L">>,
       <<384,384,"L">>, <<387,387,"L">>, <<389,389,"L">>, <<392,392,"L">>, <<396,397,"L">>, <<402,402,"L">>,
       <<405,405,"L">>, <<409,411,"L">>, <<414,414,"L">>, <<417,417,"L">>, <<419,419,"L">>, <<421,421,"L">>,
       <<424,424,"L">>, <<426,427,"L">>, <<429,429,"L">>, <<432,432,"L">>, <<436,436,"L">>, <<438,438,"L">>,
       <<441,443,"L">>, <<445,451,"L">>, <<462,462,"L">>, <<464,464,"L">>, <<466,466,"L">>, <<468,468,"L">>,
       <<470,470,"L">>, <<472,472,"L">>, <<474,474,"L">>, <<476,477,"L">>, <<479,479,"L">>, <<481,481,"L">>,
       <<483,483,"L">>, <<485,485,"L">>, <<487,487,"L">>, <<489,489,"L">>, <<491,491,"L">>, <<493,493,"L">>,
       <<495,496,"L">>, <<501,501,"L">>, <<505,505,"L">>, <<507,507,"L">>, <<509,509,"L">>, <<511,511,"L">>,
       <<513,513,"L">>, <<515,515,"L">>, <<517,517,"L">>, <<519,519,"L">>, <<521,521,"L">>, <<523,523,"L">>,
       <<525,525,"L">>, <<527,527,"L">>, <<529,529,"L">>, <<531,531,"L">>, <<533,533,"L">>, <<535,535,"L">>,
       <<537,537,"L">>, <<539,539,"L">>, <<541,541,"L">>, <<543,543,"L">>, <<545,545,"L">>, <<547,547,"L">>,
       <<549,549,"L">>, <<551,551,"L">>, <<553,553,"L">>, <<555,555,"L">>, <<557,557,"L">>, <<559,559,"L">>,
       <<561,561,"L">>, <<563,569,"L">>, <<572,572,"L">>, <<575,576,"L">>, <<578,578,"L">>, <<583,583,"L">>,
       <<585,585,"L">>, <<587,587,"L">>, <<589,589,"L">>, <<591,687,"L">>, <<697,698,"ON">>, <<699,705,"L">>,
       <<710,719,"ON">>, <<720,721,"L">>, <<748,748,"ON">>, <<750,750,"L">>, <<768,831,"NSM">>, <<834,834,"NSM">>,
       <<838,846,"NSM">>, <<848,879,"NSM">>, <<881,881,"L">>, <<883,883,"L">>, <<885,885,"ON">>, <<887,887,"L">>,
       <<891,893,"L">>, <<912,912,"L">>, <<940,974,"L">>, <<983,983,"L">>, <<985,985,"L">>, <<987,987,"L">>,
       <<989,989,"L">>, <<991,991,"L">>, <<993,993,"L">>, <<995,995,"L">>, <<997,997,"L">>, <<999,999,"L">>,
       <<1001,1001,"L">>, <<1003,1003,"L">>, <<1005,1005,"L">>, <<1007,1007,"L">>, <<1011,1011,"L">>, <<1016,1016,"L">>,
       <<1019,1020,"L">>, <<1072,1119,"L">>, <<1121,1121,"L">>, <<1123,1123,"L">>, <<1125,1125,"L">>, <<1127,1127,"L">>,
       <<1129,1129,"L">>, <<1131,1131,"L">>, <<1133,1133,"L">>, <<1135,1135,"L">>, <<1137,1137,"L">>, <<1139,1139,"L">>,
       <<1141,1141,"L">>, <<1143,1143,"L">>, <<1145,1145,"L">>, <<1147,1147,"L">>, <<1149,1149,"L">>, <<1151,1151,"L">>,
       <<1153,1153,"L">>, <<1155,1159,"NSM">>, <<1163,1163,"L">>, <<1165,1165,"L">>, <<1167,1167,"L">>, <<1169,1169,"L">>,
       <<1171,1171,"L">>, <<1173,1173,"L">>, <<1175,1175,"L">>, <<1177,1177,"L">>, <<1179,1179,"L">>, <<1181,1181,"L">>,
       <<1183,1183,"L">>, <<1185,1185,"L">>, <<1187,1187,"L">>, <<1189,1189,"L">>, <<1191,1191,"L">>, <<1193,1193,"L">>,
       <<1195,1195,"L">>, <<1197,1197,"L">>, <<1199,1199,"L">>, <<1201,1201,"L">>, <<1203,1203,"L">>, <<1205,1205,"L">>,
       <<1207,1207,"L">>, <<1209,1209,"L">>, <<1211,1211,"L">>, <<1213,1213,"L">>, <<1215,1215,"L">>, <<1218,1218,"L">>,
       <<1220,1220,"L">>, <<1222,1222,"L">>, <<1224,1224,"L">>, <<1226,1226,"L">>, <<1228,1228,"L">>, <<1230,1231,"L">>,
       <<1233,1233,"L">>, <<1235,1235,"L">>, <<1237,1237,"L">>, <<1239,1239,"L">>, <<1241,1241,"L">>, <<1243,1243,"L">>,
       <<1245,1245,"L">>, <<1247,1247,"L">>, <<1249,1249,"L">>, <<1251,1251,"L">>, <<1253,1253,"L">>, <<1255,1255,"L">>,
       <<1257,1257,"L">>, <<1259,1259,"L">>, <<1261,1261,"L">>, <<1263,1263,"L">>, <<1265,1265,"L">>, <<1267,1267,"L">>,
       <<1269,1269,"L">>, <<1271,1271,"L">>, <<1273,1273,"L">>, <<1275,1275,"L">>, <<1277,1277,"L">>, <<1279,1279,"L">>,
       <<1281,1281,"L">>, <<1283,1283,"L">>, <<1285,1285,"L">>, <<1287,1287,"L">>, <<1289,1289,"L">>, <<1291,1291,"L">>,
       <<1293,1293,"L">>, <<1295,1295,"L">>, <<1297,1297,"L">>, <<1299,1299,"L">>, <<1301,1301,"L">>, <<1303,1303,"L">>,
       <<1305,1305,"L">>, <<1307,1307,"L">>, <<1309,1309,"L">>, <<1311,1311,"L">>, <<1313,1313,"L">>, <<1315,1315,"L">>,
       <<1317,1317,"L">>, <<1319,1319,"L">>, <<1321,1321,"L">>, <<1323,1323,"L">>, <<1325,1325,"L">>, <<1327,1327,"L">>,
       <<1369,1369,"L">>, <<1376,1414,"L">>, <<1416,1416,"L">>, <<1425,1469,"NSM">>, <<1471,1471,"NSM">>, <<1473,1474,"NSM">>,
       <<1476,1477,"NSM">>, <<1479,1479,"NSM">>, <<1488,1514,"R">>, <<1519,1524,"R">>, <<1552,1562,"NSM">>, <<1568,1599,"AL">>,
       <<1601,1610,"AL">>, <<1611,1631,"NSM">>, <<1632,1641,"AN">>, <<1646,1647,"AL">>, <<1648,1648,"NSM">>, <<1649,1652,"AL">>,
       <<1657,1747,"AL">>, <<1749,1749,"AL">>, <<1750,1756,"NSM">>, <<1759,1764,"NSM">>, <<1765,1766,"AL">>, <<1767,1768,"NSM">>,
       <<1770,1773,"NSM">>, <<1774,1775,"AL">>, <<1776,1785,"EN">>, <<1786,1791,"AL">>, <<1808,1808,"AL">>, <<1809,1809,"NSM">>,
       <<1810,1839,"AL">>, <<1840,1866,"NSM">>, <<1869,1957,"AL">>, <<1958,1968,"NSM">>, <<1969,1969,"AL">>, <<1984,2026,"R">>,
       <<2027,2035,"NSM">>, <<2036,2037,"R">>, <<2045,2045,"NSM">>, <<2048,2069,"R">>, <<2070,2073,"NSM">>, <<2074,2074,"R">>,
       <<2075,2083,"NSM">>, <<2084,2084,"R">>, <<2085,2087,"NSM">>, <<2088,2088,"R">>, <<2089,2093,"NSM">>, <<2112,2136,"R">>,
       <<2137,2139,"NSM">>, <<2144,2154,"AL">>, <<2160,2183,"AL">>, <<2185,2190,"AL">>, <<2200,2207,"NSM">>, <<2208,2249,"AL">>,
       <<2250,2273,"NSM">>, <<2275,2306,"NSM">>, <<2307,2361,"L">>, <<2362,2362,"NSM">>, <<2363,2363,"L">>, <<2364,2364,"NSM">>,
       <<2365,2368,"L">>, <<2369,2376,"NSM">>, <<2377,2380,"L">>, <<2381,2381,"NSM">>, <<2382,2384,"L">>, <<2385,2391,"NSM">>,
       <<2400,2401,"L">>, <<2402,2403,"NSM">>, <<2406,2415,"L">>, <<2417,2432,"L">>, <<2433,2433,"NSM">>, <<2434,2435,"L">>,
       <<2437,2444,"L">>, <<2447,2448,"L">>, <<2451,2472,"L">>, <<2474,2480,"L">>, <<2482,2482,"L">>, <<2486,2489,"L">>,
       <<2492,2492,"NSM">>, <<2493,2496,"L">>, <<2497,2500,"NSM">>, <<2503,2504,"L">>, <<2507,2508,"L">>, <<2509,2509,"NSM">>,
       <<2510,2510,"L">>, <<2519,2519,"L">>, <<2528,2529,"L">>, <<2530,2531,"NSM">>, <<2534,2545,"L">>, <<2556,2556,"L">>,
       <<2558,2558,"NSM">>, <<2561,2562,"NSM">>, <<2563,2563,"L">>, <<2565,2570,"L">>, <<2575,2576,"L">>, <<2579,2600,"L">>,
       <<2602,2608,"L">>, <<2610,2610,"L">>, <<2613,2613,"L">>, <<2616,2617,"L">>, <<2620,2620,"NSM">>, <<2622,2624,"L">>,
       <<2625,2626,"NSM">>, <<2631,2632,"NSM">>, <<2635,2637,"NSM">>, <<2641,2641,"NSM">>, <<2652,2652,"L">>, <<2662,2671,"L">>,
       <<2672,2673,"NSM">>, <<2674,2676,"L">>, <<2677,2677,"NSM">>, <<2689,2690,"NSM">>, <<2691,2691,"L">>, <<2693,2701,"L">>,
       <<2703,2705,"L">>, <<2707,2728,"L">>, <<2730,2736,"L">>, <<2738,2739,"L">>, <<2741,2745,"L">>, <<2748,2748,"NSM">>,
       <<2749,2752,"L">>, <<2753,2757,"NSM">>, <<2759,2760,"NSM">>, <<2761,2761,"L">>, <<2763,2764,"L">>, <<2765,2765,"NSM">>,
       <<2768,2768,"L">>, <<2784,2785,"L">>, <<2786,2787,"NSM">>, <<2790,2799,"L">>, <<2809,2809,"L">>, <<2810,2815,"NSM">>,
       <<2817,2817,"NSM">>, <<2818,2819,"L">>, <<2821,2828,"L">>, <<2831,2832,"L">>, <<2835,2856,"L">>, <<2858,2864,"L">>,
       <<2866,2867,"L">>, <<2869,2873,"L">>, <<2876,2876,"NSM">>, <<2877,2878,"L">>, <<2879,2879,"NSM">>, <<2880,2880,"L">>,
       <<2881,2884,"NSM">>, <<2887,2888,"L">>, <<2891,2892,"L">>, <<2893,2893,"NSM">>, <<2901,2902,"NSM">>, <<2903,2903,"L">>,
       <<2911,2913,"L">>, <<2914,2915,"NSM">>, <<2918,2927,"L">>, <<2929,2929,"L">>, <<2946,2946,"NSM">>, <<2947,2947,"L">>,
       <<2949,2954,"L">>, <<2958,2960,"L">>, <<2962,2965,"L">>, <<2969,2970,"L">>, <<2972,2972,"L">>, <<2974,2975,"L">>,
       <<2979,2980,"L">>, <<2984,2986,"L">>, <<2990,3001,"L">>, <<3006,3007,"L">>, <<3008,3008,"NSM">>, <<3009,3010,"L">>,
       <<3014,3016,"L">>, <<3018,3020,"L">>, <<3021,3021,"NSM">>, <<3024,3024,"L">>, <<3031,3031,"L">>, <<3046,3055,"L">>,
       <<3072,3072,"NSM">>, <<3073,3075,"L">>, <<3076,3076,"NSM">>, <<3077,3084,"L">>, <<3086,3088,"L">>, <<3090,3112,"L">>,
       <<3114,3129,"L">>, <<3132,3132,"NSM">>, <<3133,3133,"L">>, <<3134,3136,"NSM">>, <<3137,3140,"L">>, <<3142,3144,"NSM">>,
       <<3146,3149,"NSM">>, <<3157,3158,"NSM">>, <<3160,3162,"L">>, <<3165,3165,"L">>, <<3168,3169,"L">>, <<3170,3171,"NSM">>,
       <<3174,3183,"L">>, <<3200,3200,"L">>, <<3201,3201,"NSM">>, <<3202,3203,"L">>, <<3205,3212,"L">>, <<3214,3216,"L">>,
       <<3218,3240,"L">>, <<3242,3251,"L">>, <<3253,3257,"L">>, <<3260,3260,"NSM">>, <<3261,3268,"L">>, <<3270,3272,"L">>,
       <<3274,3275,"L">>, <<3276,3277,"NSM">>, <<3285,3286,"L">>, <<3293,3294,"L">>, <<3296,3297,"L">>, <<3298,3299,"NSM">>,
       <<3302,3311,"L">>, <<3313,3314,"L">>, <<3315,3315,"">>, <<3328,3329,"NSM">>, <<3330,3340,"L">>, <<3342,3344,"L">>,
       <<3346,3386,"L">>, <<3387,3388,"NSM">>, <<3389,3392,"L">>, <<3393,3396,"NSM">>, <<3398,3400,"L">>, <<3402,3404,"L">>,
       <<3405,3405,"NSM">>, <<3406,3406,"L">>, <<3412,3415,"L">>, <<3423,3425,"L">>, <<3426,3427,"NSM">>, <<3430,3439,"L">>,
       <<3450,3455,"L">>, <<3457,3457,"NSM">>, <<3458,3459,"L">>, <<3461,3478,"L">>, <<3482,3505,"L">>, <<3507,3515,"L">>,
       <<3517,3517,"L">>, <<3520,3526,"L">>, <<3530,3530,"NSM">>, <<3535,3537,"L">>, <<3538,3540,"NSM">>, <<3542,3542,"NSM">>,
       <<3544,3551,"L">>, <<3558,3567,"L">>, <<3570,3571,"L">>, <<3585,3632,"L">>, <<3633,3633,"NSM">>, <<3634,3634,"L">>,
       <<3636,3642,"NSM">>, <<3648,3654,"L">>, <<3655,3662,"NSM">>, <<3664,3673,"L">>, <<3713,3714,"L">>, <<3716,3716,"L">>,
       <<3718,3722,"L">>, <<3724,3747,"L">>, <<3749,3749,"L">>, <<3751,3760,"L">>, <<3761,3761,"NSM">>, <<3762,3762,"L">>,
       <<3764,3772,"NSM">>, <<3773,3773,"L">>, <<3776,3780,"L">>, <<3782,3782,"L">>, <<3784,3789,"NSM">>, <<3790,3790,"">>,
       <<3792,3801,"L">>, <<3806,3807,"L">>, <<3840,3840,"L">>, <<3851,3851,"L">>, <<3864,3865,"NSM">>, <<3872,3881,"L">>,
       <<3893,3893,"NSM">>, <<3895,3895,"NSM">>, <<3897,3897,"NSM">>, <<3902,3906,"L">>, <<3908,3911,"L">>, <<3913,3916,"L">>,
       <<3918,3921,"L">>, <<3923,3926,"L">>, <<3928,3931,"L">>, <<3933,3944,"L">>, <<3946,3948,"L">>, <<3953,3954,"NSM">>,
       <<3956,3956,"NSM">>, <<3962,3966,"NSM">>, <<3967,3967,"L">>, <<3968,3968,"NSM">>, <<3970,3972,"NSM">>, <<3974,3975,"NSM">>,
       <<3976,3980,"L">>, <<3981,3986,"NSM">>, <<3988,3991,"NSM">>, <<3993,3996,"NSM">>, <<3998,4001,"NSM">>, <<4003,4006,"NSM">>,
       <<4008,4011,"NSM">>, <<4013,4024,"NSM">>, <<4026,4028,"NSM">>, <<4038,4038,"NSM">>, <<4096,4140,"L">>, <<4141,4144,"NSM">>,
       <<4145,4145,"L">>, <<4146,4151,"NSM">>, <<4152,4152,"L">>, <<4153,4154,"NSM">>, <<4155,4156,"L">>, <<4157,4158,"NSM">>,
       <<4159,4169,"L">>, <<4176,4183,"L">>, <<4184,4185,"NSM">>, <<4186,4189,"L">>, <<4190,4192,"NSM">>, <<4193,4208,"L">>,
       <<4209,4212,"NSM">>, <<4213,4225,"L">>, <<4226,4226,"NSM">>, <<4227,4228,"L">>, <<4229,4230,"NSM">>, <<4231,4236,"L">>,
       <<4237,4237,"NSM">>, <<4238,4252,"L">>, <<4253,4253,"NSM">>, <<4304,4346,"L">>, <<4349,4351,"L">>, <<4608,4680,"L">>,
       <<4682,4685,"L">>, <<4688,4694,"L">>, <<4696,4696,"L">>, <<4698,4701,"L">>, <<4704,4744,"L">>, <<4746,4749,"L">>,
       <<4752,4784,"L">>, <<4786,4789,"L">>, <<4792,4798,"L">>, <<4800,4800,"L">>, <<4802,4805,"L">>, <<4808,4822,"L">>,
       <<4824,4880,"L">>, <<4882,4885,"L">>, <<4888,4954,"L">>, <<4957,4959,"NSM">>, <<4992,5007,"L">>, <<5024,5109,"L">>,
       <<5121,5740,"L">>, <<5743,5759,"L">>, <<5761,5786,"L">>, <<5792,5866,"L">>, <<5873,5880,"L">>, <<5888,5905,"L">>,
       <<5906,5908,"NSM">>, <<5909,5909,"L">>, <<5919,5937,"L">>, <<5938,5939,"NSM">>, <<5940,5940,"L">>, <<5952,5969,"L">>,
       <<5970,5971,"NSM">>, <<5984,5996,"L">>, <<5998,6000,"L">>, <<6002,6003,"NSM">>, <<6016,6067,"L">>, <<6070,6070,"L">>,
       <<6071,6077,"NSM">>, <<6078,6085,"L">>, <<6086,6086,"NSM">>, <<6087,6088,"L">>, <<6089,6099,"NSM">>, <<6103,6103,"L">>,
       <<6108,6108,"L">>, <<6109,6109,"NSM">>, <<6112,6121,"L">>, <<6160,6169,"L">>, <<6176,6264,"L">>, <<6272,6276,"L">>,
       <<6277,6278,"NSM">>, <<6279,6312,"L">>, <<6313,6313,"NSM">>, <<6314,6314,"L">>, <<6320,6389,"L">>, <<6400,6430,"L">>,
       <<6432,6434,"NSM">>, <<6435,6438,"L">>, <<6439,6440,"NSM">>, <<6441,6443,"L">>, <<6448,6449,"L">>, <<6450,6450,"NSM">>,
       <<6451,6456,"L">>, <<6457,6459,"NSM">>, <<6470,6509,"L">>, <<6512,6516,"L">>, <<6528,6571,"L">>, <<6576,6601,"L">>,
       <<6608,6617,"L">>, <<6656,6678,"L">>, <<6679,6680,"NSM">>, <<6681,6682,"L">>, <<6683,6683,"NSM">>, <<6688,6741,"L">>,
       <<6742,6742,"NSM">>, <<6743,6743,"L">>, <<6744,6750,"NSM">>, <<6752,6752,"NSM">>, <<6753,6753,"L">>, <<6754,6754,"NSM">>,
       <<6755,6756,"L">>, <<6757,6764,"NSM">>, <<6765,6770,"L">>, <<6771,6780,"NSM">>, <<6783,6783,"NSM">>, <<6784,6793,"L">>,
       <<6800,6809,"L">>, <<6823,6823,"L">>, <<6832,6845,"NSM">>, <<6847,6862,"NSM">>, <<6912,6915,"NSM">>, <<6916,6963,"L">>,
       <<6964,6964,"NSM">>, <<6965,6965,"L">>, <<6966,6970,"NSM">>, <<6971,6971,"L">>, <<6972,6972,"NSM">>, <<6973,6977,"L">>,
       <<6978,6978,"NSM">>, <<6979,6988,"L">>, <<6992,7001,"L">>, <<7019,7027,"NSM">>, <<7040,7041,"NSM">>, <<7042,7073,"L">>,
       <<7074,7077,"NSM">>, <<7078,7079,"L">>, <<7080,7081,"NSM">>, <<7082,7082,"L">>, <<7083,7085,"NSM">>, <<7086,7141,"L">>,
       <<7142,7142,"NSM">>, <<7143,7143,"L">>, <<7144,7145,"NSM">>, <<7146,7148,"L">>, <<7149,7149,"NSM">>, <<7150,7150,"L">>,
       <<7151,7153,"NSM">>, <<7154,7155,"L">>, <<7168,7211,"L">>, <<7212,7219,"NSM">>, <<7220,7221,"L">>, <<7222,7223,"NSM">>,
       <<7232,7241,"L">>, <<7245,7293,"L">>, <<7376,7378,"NSM">>, <<7380,7392,"NSM">>, <<7393,7393,"L">>, <<7394,7400,"NSM">>,
       <<7401,7404,"L">>, <<7405,7405,"NSM">>, <<7406,7411,"L">>, <<7412,7412,"NSM">>, <<7413,7415,"L">>, <<7416,7417,"NSM">>,
       <<7418,7418,"L">>, <<7424,7467,"L">>, <<7471,7471,"L">>, <<7483,7483,"L">>, <<7502,7502,"L">>, <<7531,7543,"L">>,
       <<7545,7578,"L">>, <<7616,7679,"NSM">>, <<7681,7681,"L">>, <<7683,7683,"L">>, <<7685,7685,"L">>, <<7687,7687,"L">>,
       <<7689,7689,"L">>, <<7691,7691,"L">>, <<7693,7693,"L">>, <<7695,7695,"L">>, <<7697,7697,"L">>, <<7699,7699,"L">>,
       <<7701,7701,"L">>, <<7703,7703,"L">>, <<7705,7705,"L">>, <<7707,7707,"L">>, <<7709,7709,"L">>, <<7711,7711,"L">>,
       <<7713,7713,"L">>, <<7715,7715,"L">>, <<7717,7717,"L">>, <<7719,7719,"L">>, <<7721,7721,"L">>, <<7723,7723,"L">>,
       <<7725,7725,"L">>, <<7727,7727,"L">>, <<7729,7729,"L">>, <<7731,7731,"L">>, <<7733,7733,"L">>, <<7735,7735,"L">>,
       <<7737,7737,"L">>, <<7739,7739,"L">>, <<7741,7741,"L">>, <<7743,7743,"L">>, <<7745,7745,"L">>, <<7747,7747,"L">>,
       <<7749,7749,"L">>, <<7751,7751,"L">>, <<7753,7753,"L">>, <<7755,7755,"L">>, <<7757,7757,"L">>, <<7759,7759,"L">>,
       <<7761,7761,"L">>, <<7763,7763,"L">>, <<7765,7765,"L">>, <<7767,7767,"L">>, <<7769,7769,"L">>, <<7771,7771,"L">>,
       <<7773,7773,"L">>, <<7775,7775,"L">>, <<7777,7777,"L">>, <<7779,7779,"L">>, <<7781,7781,"L">>, <<7783,7783,"L">>,
       <<7785,7785,"L">>, <<7787,7787,"L">>, <<7789,7789,"L">>, <<7791,7791,"L">>, <<7793,7793,"L">>, <<7795,7795,"L">>,
       <<7797,7797,"L">>, <<7799,7799,"L">>, <<7801,7801,"L">>, <<7803,7803,"L">>, <<7805,7805,"L">>, <<7807,7807,"L">>,
       <<7809,7809,"L">>, <<7811,7811,"L">>, <<7813,7813,"L">>, <<7815,7815,"L">>, <<7817,7817,"L">>, <<7819,7819,"L">>,
       <<7821,7821,"L">>, <<7823,7823,"L">>, <<7825,7825,"L">>, <<7827,7827,"L">>, <<7829,7833,"L">>, <<7836,7837,"L">>,
       <<7839,7839,"L">>, <<7841,7841,"L">>, <<7843,7843,"L">>, <<7845,7845,"L">>, <<7847,7847,"L">>, <<7849,7849,"L">>,
       <<7851,7851,"L">>, <<7853,7853,"L">>, <<7855,7855,"L">>, <<7857,7857,"L">>, <<7859,7859,"L">>, <<7861,7861,"L">>,
       <<7863,7863,"L">>, <<7865,7865,"L">>, <<7867,7867,"L">>, <<7869,7869,"L">>, <<7871,7871,"L">>, <<7873,7873,"L">>,
       <<7875,7875,"L">>, <<7877,7877,"L">>, <<7879,7879,"L">>, <<7881,7881,"L">>, <<7883,7883,"L">>, <<7885,7885,"L">>,
       <<7887,7887,"L">>, <<7889,7889,"L">>, <<7891,7891,"L">>, <<7893,7893,"L">>, <<7895,7895,"L">>, <<7897,7897,"L">>,
       <<7899,7899,"L">>, <<7901,7901,"L">>, <<7903,7903,"L">>, <<7905,7905,"L">>, <<7907,7907,"L">>, <<7909,7909,"L">>,
       <<7911,7911,"L">>, <<7913,7913,"L">>, <<7915,7915,"L">>, <<7917,7917,"L">>, <<7919,7919,"L">>, <<7921,7921,"L">>,
       <<7923,7923,"L">>, <<7925,7925,"L">>, <<7927,7927,"L">>, <<7929,7929,"L">>, <<7931,7931,"L">>, <<7933,7933,"L">>,
       <<7935,7943,"L">>, <<7952,7957,"L">>, <<7968,7975,"L">>, <<7984,7991,"L">>, <<8000,8005,"L">>, <<8016,8023,"L">>,
       <<8032,8039,"L">>, <<8048,8048,"L">>, <<8050,8050,"L">>, <<8052,8052,"L">>, <<8054,8054,"L">>, <<8056,8056,"L">>,
       <<8058,8058,"L">>, <<8060,8060,"L">>, <<8112,8113,"L">>, <<8118,8118,"L">>, <<8134,8134,"L">>, <<8144,8146,"L">>,
       <<8150,8151,"L">>, <<8160,8162,"L">>, <<8164,8167,"L">>, <<8182,8182,"L">>, <<8204,8205,"BN">>, <<8526,8526,"L">>,
       <<8580,8580,"L">>, <<11312,11359,"L">>, <<11361,11361,"L">>, <<11365,11366,"L">>, <<11368,11368,"L">>, <<11370,11370,"L">>,
       <<11372,11372,"L">>, <<11377,11377,"L">>, <<11379,11380,"L">>, <<11382,11387,"L">>, <<11393,11393,"L">>, <<11395,11395,"L">>,
       <<11397,11397,"L">>, <<11399,11399,"L">>, <<11401,11401,"L">>, <<11403,11403,"L">>, <<11405,11405,"L">>, <<11407,11407,"L">>,
       <<11409,11409,"L">>, <<11411,11411,"L">>, <<11413,11413,"L">>, <<11415,11415,"L">>, <<11417,11417,"L">>, <<11419,11419,"L">>,
       <<11421,11421,"L">>, <<11423,11423,"L">>, <<11425,11425,"L">>, <<11427,11427,"L">>, <<11429,11429,"L">>, <<11431,11431,"L">>,
       <<11433,11433,"L">>, <<11435,11435,"L">>, <<11437,11437,"L">>, <<11439,11439,"L">>, <<11441,11441,"L">>, <<11443,11443,"L">>,
       <<11445,11445,"L">>, <<11447,11447,"L">>, <<11449,11449,"L">>, <<11451,11451,"L">>, <<11453,11453,"L">>, <<11455,11455,"L">>,
       <<11457,11457,"L">>, <<11459,11459,"L">>, <<11461,11461,"L">>, <<11463,11463,"L">>, <<11465,11465,"L">>, <<11467,11467,"L">>,
       <<11469,11469,"L">>, <<11471,11471,"L">>, <<11473,11473,"L">>, <<11475,11475,"L">>, <<11477,11477,"L">>, <<11479,11479,"L">>,
       <<11481,11481,"L">>, <<11483,11483,"L">>, <<11485,11485,"L">>, <<11487,11487,"L">>, <<11489,11489,"L">>, <<11491,11492,"L">>,
       <<11500,11500,"L">>, <<11502,11502,"L">>, <<11503,11505,"NSM">>, <<11507,11507,"L">>, <<11520,11557,"L">>, <<11559,11559,"L">>,
       <<11565,11565,"L">>, <<11568,11623,"L">>, <<11647,11647,"NSM">>, <<11648,11670,"L">>, <<11680,11686,"L">>, <<11688,11694,"L">>,
       <<11696,11702,"L">>, <<11704,11710,"L">>, <<11712,11718,"L">>, <<11720,11726,"L">>, <<11728,11734,"L">>, <<11736,11742,"L">>,
       <<11744,11775,"NSM">>, <<11823,11823,"ON">>, <<12293,12295,"L">>, <<12330,12333,"NSM">>, <<12348,12348,"L">>, <<12353,12438,"L">>,
       <<12441,12442,"NSM">>, <<12445,12446,"L">>, <<12449,12538,"L">>, <<12539,12539,"ON">>, <<12540,12542,"L">>, <<12549,12591,"L">>,
       <<12704,12735,"L">>, <<12784,12799,"L">>, <<13312,19903,"L">>, <<19968,42124,"L">>, <<42192,42237,"L">>, <<42240,42508,"L">>,
       <<42512,42539,"L">>, <<42561,42561,"L">>, <<42563,42563,"L">>, <<42565,42565,"L">>, <<42567,42567,"L">>, <<42569,42569,"L">>,
       <<42571,42571,"L">>, <<42573,42573,"L">>, <<42575,42575,"L">>, <<42577,42577,"L">>, <<42579,42579,"L">>, <<42581,42581,"L">>,
       <<42583,42583,"L">>, <<42585,42585,"L">>, <<42587,42587,"L">>, <<42589,42589,"L">>, <<42591,42591,"L">>, <<42593,42593,"L">>,
       <<42595,42595,"L">>, <<42597,42597,"L">>, <<42599,42599,"L">>, <<42601,42601,"L">>, <<42603,42603,"L">>, <<42605,42606,"L">>,
       <<42607,42607,"NSM">>, <<42612,42621,"NSM">>, <<42623,42623,"ON">>, <<42625,42625,"L">>, <<42627,42627,"L">>, <<42629,42629,"L">>,
       <<42631,42631,"L">>, <<42633,42633,"L">>, <<42635,42635,"L">>, <<42637,42637,"L">>, <<42639,42639,"L">>, <<42641,42641,"L">>,
       <<42643,42643,"L">>, <<42645,42645,"L">>, <<42647,42647,"L">>, <<42649,42649,"L">>, <<42651,42651,"L">>, <<42654,42655,"NSM">>,
       <<42656,42725,"L">>, <<42736,42737,"NSM">>, <<42775,42783,"ON">>, <<42787,42787,"L">>, <<42789,42789,"L">>, <<42791,42791,"L">>,
       <<42793,42793,"L">>, <<42795,42795,"L">>, <<42797,42797,"L">>, <<42799,42801,"L">>, <<42803,42803,"L">>, <<42805,42805,"L">>,
       <<42807,42807,"L">>, <<42809,42809,"L">>, <<42811,42811,"L">>, <<42813,42813,"L">>, <<42815,42815,"L">>, <<42817,42817,"L">>,
       <<42819,42819,"L">>, <<42821,42821,"L">>, <<42823,42823,"L">>, <<42825,42825,"L">>, <<42827,42827,"L">>, <<42829,42829,"L">>,
       <<42831,42831,"L">>, <<42833,42833,"L">>, <<42835,42835,"L">>, <<42837,42837,"L">>, <<42839,42839,"L">>, <<42841,42841,"L">>,
       <<42843,42843,"L">>, <<42845,42845,"L">>, <<42847,42847,"L">>, <<42849,42849,"L">>, <<42851,42851,"L">>, <<42853,42853,"L">>,
       <<42855,42855,"L">>, <<42857,42857,"L">>, <<42859,42859,"L">>, <<42861,42861,"L">>, <<42863,42863,"L">>, <<42865,42872,"L">>,
       <<42874,42874,"L">>, <<42876,42876,"L">>, <<42879,42879,"L">>, <<42881,42881,"L">>, <<42883,42883,"L">>, <<42885,42885,"L">>,
       <<42887,42887,"L">>, <<42888,42888,"ON">>, <<42892,42892,"L">>, <<42894,42895,"L">>, <<42897,42897,"L">>, <<42899,42901,"L">>,
       <<42903,42903,"L">>, <<42905,42905,"L">>, <<42907,42907,"L">>, <<42909,42909,"L">>, <<42911,42911,"L">>, <<42913,42913,"L">>,
       <<42915,42915,"L">>, <<42917,42917,"L">>, <<42919,42919,"L">>, <<42921,42921,"L">>, <<42927,42927,"L">>, <<42933,42933,"L">>,
       <<42935,42935,"L">>, <<42937,42937,"L">>, <<42939,42939,"L">>, <<42941,42941,"L">>, <<42943,42943,"L">>, <<42945,42945,"L">>,
       <<42947,42947,"L">>, <<42952,42952,"L">>, <<42954,42954,"L">>, <<42961,42961,"L">>, <<42963,42963,"L">>, <<42965,42965,"L">>,
       <<42967,42967,"L">>, <<42969,42969,"L">>, <<42994,42996,"L">>, <<42998,42999,"L">>, <<43002,43009,"L">>, <<43010,43010,"NSM">>,
       <<43011,43013,"L">>, <<43014,43014,"NSM">>, <<43015,43018,"L">>, <<43019,43019,"NSM">>, <<43020,43044,"L">>, <<43045,43046,"NSM">>,
       <<43047,43047,"L">>, <<43052,43052,"NSM">>, <<43072,43123,"L">>, <<43136,43203,"L">>, <<43204,43205,"NSM">>, <<43216,43225,"L">>,
       <<43232,43249,"NSM">>, <<43250,43255,"L">>, <<43259,43259,"L">>, <<43261,43262,"L">>, <<43263,43263,"NSM">>, <<43264,43301,"L">>,
       <<43302,43309,"NSM">>, <<43312,43334,"L">>, <<43335,43345,"NSM">>, <<43346,43347,"L">>, <<43392,43394,"NSM">>, <<43395,43442,"L">>,
       <<43443,43443,"NSM">>, <<43444,43445,"L">>, <<43446,43449,"NSM">>, <<43450,43451,"L">>, <<43452,43453,"NSM">>, <<43454,43456,"L">>,
       <<43471,43481,"L">>, <<43488,43492,"L">>, <<43493,43493,"NSM">>, <<43494,43518,"L">>, <<43520,43560,"L">>, <<43561,43566,"NSM">>,
       <<43567,43568,"L">>, <<43569,43570,"NSM">>, <<43571,43572,"L">>, <<43573,43574,"NSM">>, <<43584,43586,"L">>, <<43587,43587,"NSM">>,
       <<43588,43595,"L">>, <<43596,43596,"NSM">>, <<43597,43597,"L">>, <<43600,43609,"L">>, <<43616,43638,"L">>, <<43642,43643,"L">>,
       <<43644,43644,"NSM">>, <<43645,43695,"L">>, <<43696,43696,"NSM">>, <<43697,43697,"L">>, <<43698,43700,"NSM">>, <<43701,43702,"L">>,
       <<43703,43704,"NSM">>, <<43705,43709,"L">>, <<43710,43711,"NSM">>, <<43712,43712,"L">>, <<43713,43713,"NSM">>, <<43714,43714,"L">>,
       <<43739,43741,"L">>, <<43744,43755,"L">>, <<43756,43757,"NSM">>, <<43758,43759,"L">>, <<43762,43765,"L">>, <<43766,43766,"NSM">>,
       <<43777,43782,"L">>, <<43785,43790,"L">>, <<43793,43798,"L">>, <<43808,43814,"L">>, <<43816,43822,"L">>, <<43824,43866,"L">>,
       <<43872,43880,"L">>, <<43968,44004,"L">>, <<44005,44005,"NSM">>, <<44006,44007,"L">>, <<44008,44008,"NSM">>, <<44009,44010,"L">>,
       <<44012,44012,"L">>, <<44013,44013,"NSM">>, <<44016,44025,"L">>, <<44032,55203,"L">>, <<64014,64015,"L">>, <<64017,64017,"L">>,
       <<64019,64020,"L">>, <<64031,64031,"L">>, <<64033,64033,"L">>, <<64035,64036,"L">>, <<64039,64041,"L">>, <<64286,64286,"NSM">>,
       <<65056,65071,"NSM">>, <<65139,65139,"AL">>, <<65536,65547,"L">>, <<65549,65574,"L">>, <<65576,65594,"L">>, <<65596,65597,"L">>,
       <<65599,65613,"L">>, <<65616,65629,"L">>, <<65664,65786,"L">>, <<66045,66045,"NSM">>, <<66176,66204,"L">>, <<66208,66256,"L">>,
       <<66272,66272,"NSM">>, <<66304,66335,"L">>, <<66349,66368,"L">>, <<66370,66377,"L">>, <<66384,66421,"L">>, <<66422,66426,"NSM">>,
       <<66432,66461,"L">>, <<66464,66499,"L">>, <<66504,66511,"L">>, <<66600,66717,"L">>, <<66720,66729,"L">>, <<66776,66811,"L">>,
       <<66816,66855,"L">>, <<66864,66915,"L">>, <<66967,66977,"L">>, <<66979,66993,"L">>, <<66995,67001,"L">>, <<67003,67004,"L">>,
       <<67072,67382,"L">>, <<67392,67413,"L">>, <<67424,67431,"L">>, <<67456,67461,"L">>, <<67463,67504,"L">>, <<67506,67514,"L">>,
       <<67584,67589,"R">>, <<67592,67592,"R">>, <<67594,67637,"R">>, <<67639,67640,"R">>, <<67644,67644,"R">>, <<67647,67669,"R">>,
       <<67680,67702,"R">>, <<67712,67742,"R">>, <<67808,67826,"R">>, <<67828,67829,"R">>, <<67840,67861,"R">>, <<67872,67897,"R">>,
       <<67968,68023,"R">>, <<68030,68031,"R">>, <<68096,68096,"R">>, <<68097,68099,"NSM">>, <<68101,68102,"NSM">>, <<68108,68111,"NSM">>,
       <<68112,68115,"R">>, <<68117,68119,"R">>, <<68121,68149,"R">>, <<68152,68154,"NSM">>, <<68159,68159,"NSM">>, <<68192,68220,"R">>,
       <<68224,68252,"R">>, <<68288,68295,"R">>, <<68297,68324,"R">>, <<68325,68326,"NSM">>, <<68352,68405,"R">>, <<68416,68437,"R">>,
       <<68448,68466,"R">>, <<68480,68497,"R">>, <<68608,68680,"R">>, <<68800,68850,"R">>, <<68864,68899,"AL">>, <<68900,68903,"NSM">>,
       <<68912,68921,"AN">>, <<69248,69289,"R">>, <<69291,69292,"NSM">>, <<69296,69297,"R">>, <<69373,69375,"">>, <<69376,69404,"R">>,
       <<69415,69415,"R">>, <<69424,69445,"AL">>, <<69446,69456,"NSM">>, <<69488,69505,"R">>, <<69506,69509,"NSM">>, <<69552,69572,"R">>,
       <<69600,69622,"R">>, <<69632,69632,"L">>, <<69633,69633,"NSM">>, <<69634,69687,"L">>, <<69688,69702,"NSM">>, <<69734,69743,"L">>,
       <<69744,69744,"NSM">>, <<69745,69746,"L">>, <<69747,69748,"NSM">>, <<69749,69749,"L">>, <<69759,69761,"NSM">>, <<69762,69810,"L">>,
       <<69811,69814,"NSM">>, <<69815,69816,"L">>, <<69817,69818,"NSM">>, <<69826,69826,"NSM">>, <<69840,69864,"L">>, <<69872,69881,"L">>,
       <<69888,69890,"NSM">>, <<69891,69926,"L">>, <<69927,69931,"NSM">>, <<69932,69932,"L">>, <<69933,69940,"NSM">>, <<69942,69951,"L">>,
       <<69956,69959,"L">>, <<69968,70002,"L">>, <<70003,70003,"NSM">>, <<70006,70006,"L">>, <<70016,70017,"NSM">>, <<70018,70069,"L">>,
       <<70070,70078,"NSM">>, <<70079,70084,"L">>, <<70089,70092,"NSM">>, <<70094,70094,"L">>, <<70095,70095,"NSM">>, <<70096,70106,"L">>,
       <<70108,70108,"L">>, <<70144,70161,"L">>, <<70163,70190,"L">>, <<70191,70193,"NSM">>, <<70194,70195,"L">>, <<70196,70196,"NSM">>,
       <<70197,70197,"L">>, <<70198,70199,"NSM">>, <<70206,70206,"NSM">>, <<70207,70209,"">>, <<70272,70278,"L">>, <<70280,70280,"L">>,
       <<70282,70285,"L">>, <<70287,70301,"L">>, <<70303,70312,"L">>, <<70320,70366,"L">>, <<70367,70367,"NSM">>, <<70368,70370,"L">>,
       <<70371,70378,"NSM">>, <<70384,70393,"L">>, <<70400,70401,"NSM">>, <<70402,70403,"L">>, <<70405,70412,"L">>, <<70415,70416,"L">>,
       <<70419,70440,"L">>, <<70442,70448,"L">>, <<70450,70451,"L">>, <<70453,70457,"L">>, <<70459,70460,"NSM">>, <<70461,70463,"L">>,
       <<70464,70464,"NSM">>, <<70465,70468,"L">>, <<70471,70472,"L">>, <<70475,70477,"L">>, <<70480,70480,"L">>, <<70487,70487,"L">>,
       <<70493,70499,"L">>, <<70502,70508,"NSM">>, <<70512,70516,"NSM">>, <<70656,70711,"L">>, <<70712,70719,"NSM">>, <<70720,70721,"L">>,
       <<70722,70724,"NSM">>, <<70725,70725,"L">>, <<70726,70726,"NSM">>, <<70727,70730,"L">>, <<70736,70745,"L">>, <<70750,70750,"NSM">>,
       <<70751,70753,"L">>, <<70784,70834,"L">>, <<70835,70840,"NSM">>, <<70841,70841,"L">>, <<70842,70842,"NSM">>, <<70843,70846,"L">>,
       <<70847,70848,"NSM">>, <<70849,70849,"L">>, <<70850,70851,"NSM">>, <<70852,70853,"L">>, <<70855,70855,"L">>, <<70864,70873,"L">>,
       <<71040,71089,"L">>, <<71090,71093,"NSM">>, <<71096,71099,"L">>, <<71100,71101,"NSM">>, <<71102,71102,"L">>, <<71103,71104,"NSM">>,
       <<71128,71131,"L">>, <<71132,71133,"NSM">>, <<71168,71218,"L">>, <<71219,71226,"NSM">>, <<71227,71228,"L">>, <<71229,71229,"NSM">>,
       <<71230,71230,"L">>, <<71231,71232,"NSM">>, <<71236,71236,"L">>, <<71248,71257,"L">>, <<71296,71338,"L">>, <<71339,71339,"NSM">>,
       <<71340,71340,"L">>, <<71341,71341,"NSM">>, <<71342,71343,"L">>, <<71344,71349,"NSM">>, <<71350,71350,"L">>, <<71351,71351,"NSM">>,
       <<71352,71352,"L">>, <<71360,71369,"L">>, <<71424,71450,"L">>, <<71453,71455,"NSM">>, <<71456,71457,"L">>, <<71458,71461,"NSM">>,
       <<71462,71462,"L">>, <<71463,71467,"NSM">>, <<71472,71481,"L">>, <<71488,71494,"L">>, <<71680,71726,"L">>, <<71727,71735,"NSM">>,
       <<71736,71736,"L">>, <<71737,71738,"NSM">>, <<71872,71913,"L">>, <<71935,71942,"L">>, <<71945,71945,"L">>, <<71948,71955,"L">>,
       <<71957,71958,"L">>, <<71960,71989,"L">>, <<71991,71992,"L">>, <<71995,71996,"NSM">>, <<71997,71997,"L">>, <<71998,71998,"NSM">>,
       <<71999,72002,"L">>, <<72003,72003,"NSM">>, <<72016,72025,"L">>, <<72096,72103,"L">>, <<72106,72147,"L">>, <<72148,72151,"NSM">>,
       <<72154,72155,"NSM">>, <<72156,72159,"L">>, <<72160,72160,"NSM">>, <<72161,72161,"L">>, <<72163,72164,"L">>, <<72192,72192,"L">>,
       <<72193,72198,"NSM">>, <<72199,72200,"L">>, <<72201,72202,"NSM">>, <<72203,72242,"L">>, <<72243,72248,"NSM">>, <<72249,72250,"L">>,
       <<72251,72254,"NSM">>, <<72263,72263,"NSM">>, <<72272,72272,"L">>, <<72273,72278,"NSM">>, <<72279,72280,"L">>, <<72281,72283,"NSM">>,
       <<72284,72329,"L">>, <<72330,72342,"NSM">>, <<72343,72343,"L">>, <<72344,72345,"NSM">>, <<72349,72349,"L">>, <<72368,72440,"L">>,
       <<72704,72712,"L">>, <<72714,72751,"L">>, <<72752,72758,"NSM">>, <<72760,72765,"NSM">>, <<72766,72768,"L">>, <<72784,72793,"L">>,
       <<72818,72847,"L">>, <<72850,72871,"NSM">>, <<72873,72873,"L">>, <<72874,72880,"NSM">>, <<72881,72881,"L">>, <<72882,72883,"NSM">>,
       <<72884,72884,"L">>, <<72885,72886,"NSM">>, <<72960,72966,"L">>, <<72968,72969,"L">>, <<72971,73008,"L">>, <<73009,73014,"NSM">>,
       <<73018,73018,"NSM">>, <<73020,73021,"NSM">>, <<73023,73029,"NSM">>, <<73030,73030,"L">>, <<73031,73031,"NSM">>, <<73040,73049,"L">>,
       <<73056,73061,"L">>, <<73063,73064,"L">>, <<73066,73102,"L">>, <<73104,73105,"NSM">>, <<73107,73108,"L">>, <<73109,73109,"NSM">>,
       <<73110,73110,"L">>, <<73111,73111,"NSM">>, <<73112,73112,"L">>, <<73120,73129,"L">>, <<73440,73458,"L">>, <<73459,73460,"NSM">>,
       <<73461,73462,"L">>, <<73472,73488,"">>, <<73490,73530,"">>, <<73534,73538,"">>, <<73552,73561,"">>, <<73648,73648,"L">>,
       <<73728,74649,"L">>, <<74880,75075,"L">>, <<77712,77808,"L">>, <<77824,78894,"L">>, <<78895,78895,"">>, <<78912,78933,"">>,
       <<82944,83526,"L">>, <<92160,92728,"L">>, <<92736,92766,"L">>, <<92768,92777,"L">>, <<92784,92862,"L">>, <<92864,92873,"L">>,
       <<92880,92909,"L">>, <<92912,92916,"NSM">>, <<92928,92975,"L">>, <<92976,92982,"NSM">>, <<92992,92995,"L">>, <<93008,93017,"L">>,
       <<93027,93047,"L">>, <<93053,93071,"L">>, <<93792,93823,"L">>, <<93952,94026,"L">>, <<94031,94031,"NSM">>, <<94032,94087,"L">>,
       <<94095,94098,"NSM">>, <<94099,94111,"L">>, <<94176,94177,"L">>, <<94179,94179,"L">>, <<94180,94180,"NSM">>, <<94192,94193,"L">>,
       <<94208,100343,"L">>, <<100352,101589,"L">>, <<101632,101640,"L">>, <<110576,110579,"L">>, <<110581,110587,"L">>, <<110589,110590,"L">>,
       <<110592,110882,"L">>, <<110898,110898,"">>, <<110928,110930,"L">>, <<110933,110933,"">>, <<110948,110951,"L">>, <<110960,111355,"L">>,
       <<113664,113770,"L">>, <<113776,113788,"L">>, <<113792,113800,"L">>, <<113808,113817,"L">>, <<113821,113822,"NSM">>, <<118528,118573,"NSM">>,
       <<118576,118598,"NSM">>, <<121344,121398,"NSM">>, <<121403,121452,"NSM">>, <<121461,121461,"NSM">>, <<121476,121476,"NSM">>, <<121499,121503,"NSM">>,
       <<121505,121519,"NSM">>, <<122624,122654,"L">>, <<122661,122666,"">>, <<122880,122886,"NSM">>, <<122888,122904,"NSM">>, <<122907,122913,"NSM">>,
       <<122915,122916,"NSM">>, <<122918,122922,"NSM">>, <<122928,122989,"">>, <<123023,123023,"">>, <<123136,123180,"L">>, <<123184,123190,"NSM">>,
       <<123191,123197,"L">>, <<123200,123209,"L">>, <<123214,123214,"L">>, <<123536,123565,"L">>, <<123566,123566,"NSM">>, <<123584,123627,"L">>,
       <<123628,123631,"NSM">>, <<123632,123641,"L">>, <<124112,124153,"">>, <<124896,124902,"L">>, <<124904,124907,"L">>, <<124909,124910,"L">>,
       <<124912,124926,"L">>, <<124928,125124,"R">>, <<125136,125142,"NSM">>, <<125218,125251,"R">>, <<125252,125258,"NSM">>, <<125259,125259,"R">>,
       <<125264,125273,"R">>, <<131072,173791,"L">>, <<173824,177976,"L">>, <<177977,177977,"">>, <<177984,178205,"L">>, <<178208,183969,"L">>,
       <<183984,191456,"L">>, <<196608,201546,"L">>, <<201552,205743,"">> >>

\* check_hyphen_ok
HyphenOk(label) ==
    /\ ~(Len(label) >= 4 /\ label[3] = Ord["-"] /\ label[4] = Ord["-"])
    /\ label[1] # Ord["-"]
    /\ label[Len(label)] # Ord["-"]

JoiningType(c) ==
    IF \E i \in 1..Len(JoiningRanges) : JoiningRanges[i][1] <= c /\ c <= JoiningRanges[i][2]
    THEN JoiningRanges[CHOOSE i \in 1..Len(JoiningRanges) :
            JoiningRanges[i][1] <= c /\ c <= JoiningRanges[i][2]][3]
    ELSE ""

\* the characters a label may have whose combining class is 0 and for which
\* unicodedata.name raises: _combining_class fails for them
UnnamedRanges ==
    << <<3315,3315>>, <<3790,3790>>, <<69373,69375>>, <<70207,70209>>, <<73472,73488>>, <<73490,73530>>,
       <<73534,73538>>, <<73552,73561>>, <<78895,78895>>, <<78912,78933>>, <<94208,100343>>, <<101632,101640>>,
       <<110898,110898>>, <<110933,110933>>, <<122661,122666>>, <<122928,122989>>, <<123023,123023>>, <<124112,124153>>,
       <<177977,177977>>, <<201552,205743>> >>

\* valid_contextj: a joiner (U+200C ZERO WIDTH NON-JOINER, 8204, or U+200D
\* ZERO WIDTH JOINER, 8205) stands after a virama; a non-joiner also between
\* a character that joins to the left and one that joins to the right; the
\* joiner is refused when _combining_class fails for the character before it
ValidContextj(label, pos) ==
    /\ pos > 1 => ~InRanges(label[pos - 1], UnnamedRanges)
    /\ \/ pos > 1 /\ InRanges(label[pos - 1], ViramaRanges)
       \/ /\ label[pos] = 8204
          /\ \E i \in 1..(pos - 1) : JoiningType(label[i]) \in {"L", "D"}
          /\ \E i \in (pos + 1)..Len(label) : JoiningType(label[i]) \in {"R", "D"}

\* valid_contexto
ValidContexto(label, pos) ==
    IF label[pos] = 183
    THEN 1 < pos /\ pos < Len(label) /\ label[pos - 1] = Ord["l"] /\ label[pos + 1] = Ord["l"]
    ELSE IF label[pos] = 885
    THEN pos < Len(label) /\ InRanges(label[pos + 1], ScriptGreek)
    ELSE IF label[pos] \in {1523, 1524}
    THEN pos > 1 /\ InRanges(label[pos - 1], ScriptHebrew)
    ELSE IF label[pos] = 12539
    THEN \E i \in 1..Len(label) :
            /\ label[i] # 12539
            /\ \/ InRanges(label[i], ScriptHiragana)
               \/ InRanges(label[i], ScriptKatakana)
               \/ InRanges(label[i], ScriptHan)
    ELSE IF label[pos] \in 1632..1641
    THEN \A i \in 1..Len(label) : label[i] \notin 1776..1785
    ELSE IF label[pos] \in 1776..1785
    THEN \A i \in 1..Len(label) : label[i] \notin 1632..1641
    ELSE FALSE

\* the code point at a place of a label is allowed there
ValidCodepoint(label, pos) ==
    IF InRanges(label[pos], PvalidRanges) THEN TRUE
    ELSE IF label[pos] \in {8204, 8205} THEN ValidContextj(label, pos)
    ELSE IF InRanges(label[pos], ContextoRanges) THEN ValidContexto(label, pos)
    ELSE FALSE

Direction(c) ==
    IF \E i \in 1..Len(BidiRanges) : BidiRanges[i][1] <= c /\ c <= BidiRanges[i][2]
    THEN BidiRanges[CHOOSE i \in 1..Len(BidiRanges) :
            BidiRanges[i][1] <= c /\ c <= BidiRanges[i][2]][3]
    ELSE ""

\* the last direction of a label that is not NSM is one of `endings`
ValidEnding(directions, endings) ==
    \E i \in 1..Len(directions) :
        /\ directions[i] \in endings
        /\ \A j \in (i + 1)..Len(directions) : directions[j] = "NSM"

\* check_bidi for the directions of the characters of a label: the rules
\* apply to a label with a character that is written from right to left
BidiOk(directions) ==
    /\ \A i \in 1..Len(directions) : directions[i] # ""
    /\ (\E i \in 1..Len(directions) : directions[i] \in {"R", "AL", "AN"}) =>
        IF directions[1] \in {"R", "AL"}
        THEN /\ \A i \in 1..Len(directions) :
                    directions[i] \in {"R", "AL", "AN", "EN", "ES", "CS", "ET", "ON", "BN", "NSM"}
             /\ ValidEnding(directions, {"R", "AL", "EN", "AN"})
             /\ ~(\E i, j \in 1..Len(directions) : directions[i] = "AN" /\ directions[j] = "EN")
        ELSE /\ directions[1] = "L"
             /\ \A i \in 1..Len(directions) :
                    directions[i] \in {"L", "EN", "ES", "CS", "ET", "ON", "BN", "NSM"}
             /\ ValidEnding(directions, {"L", "EN"})

\* check_label raises no IDNAError
CheckLabel(label) ==
    /\ label # <<>>
    /\ Nfc(label) = label
    /\ HyphenOk(label)
    /\ ~InRanges(label[1], MarkRanges)
    /\ \A pos \in 1..Len(label) : ValidCodepoint(label, pos)
    /\ BidiOk([i \in 1..Len(label) |-> Direction(label[i])])

(* the codec "punycode" *)

\* T(j, bias)
Threshold(j, bias) ==
    IF 36 * (j + 1) - bias < 1 THEN 1
    ELSE IF 36 * (j + 1) - bias > 26 THEN 26
    ELSE 36 * (j + 1) - bias

\* digits[d]: "a" to "z", then "0" to "9"
PunycodeDigit(d) == IF d < 26 THEN 97 + d ELSE 22 + d

\* generate_generalized_integer
RECURSIVE GeneralizedInteger(_, _, _)
GeneralizedInteger(N, bias, j) ==
    IF N < Threshold(j, bias) THEN <<PunycodeDigit(N)>>
    ELSE <<PunycodeDigit(Threshold(j, bias)
                            + ((N - Threshold(j, bias)) % (36 - Threshold(j, bias))))>>
            \o GeneralizedInteger((N - Threshold(j, bias)) \div (36 - Threshold(j, bias)),
                                  bias, j + 1)

RECURSIVE AdaptLoop(_, _)
AdaptLoop(delta, divisions) ==
    IF delta > 455 THEN AdaptLoop(delta \div 35, divisions + 36)
    ELSE divisions + ((36 * delta) \div (delta + 38))

Damped(delta, first) == IF first THEN delta \div 700 ELSE delta \div 2

\* adapt
Adapt(delta, first, numchars) ==
    AdaptLoop(Damped(delta, first) + (Damped(delta, first) \div numchars), 0)

\* generate_integers, from the delta at the place `points` on
RECURSIVE GenerateIntegers(_, _, _, _)
GenerateIntegers(baselen, deltas, points, bias) ==
    IF points > Len(deltas) THEN <<>>
    ELSE GeneralizedInteger(deltas[points], bias, 0)
            \o GenerateIntegers(baselen, deltas, points + 1,
                                Adapt(deltas[points], points = 1, baselen + points))

\* selective_len
SelectiveLen(s, max) == Cardinality({i \in 1..Len(s) : s[i] < max})

\* the index selective_find gives for the character at a place: the number
\* of the characters before it that are not above it
SelectiveIndex(s, pos) == Cardinality({i \in 1..(pos - 1) : s[i] <= s[pos]})

\* the places of a character in a text
Places(s, c) == SelectSeq([i \in 1..Len(s) |-> i], LAMBDA i : s[i] = c)

\* insertion_unsort for one character: a delta for each of its places
DeltasOf(s, places, delta, oldindex) ==
    [k \in 1..Len(places) |->
        IF k = 1 THEN delta + SelectiveIndex(s, places[1]) - oldindex - 1
        ELSE SelectiveIndex(s, places[k]) - SelectiveIndex(s, places[k - 1]) - 1]

Lowest(chars) == CHOOSE c \in chars : \A d \in chars : c <= d

\* insertion_unsort: the characters outside ASCII in ascending order
RECURSIVE InsertionUnsort(_, _, _, _)
InsertionUnsort(s, extended, oldchar, oldindex) ==
    IF extended = {} THEN <<>>
    ELSE DeltasOf(s, Places(s, Lowest(extended)),
                  (SelectiveLen(s, Lowest(extended)) + 1) * (Lowest(extended) - oldchar),
                  oldindex)
            \o InsertionUnsort(s, extended \ {Lowest(extended)}, Lowest(extended),
                               SelectiveIndex(s, Places(s, Lowest(extended))[
                                                    Len(Places(s, Lowest(extended)))]))

IsAscii(s) == \A i \in 1..Len(s) : s[i] < 128
BasicChars(s) == SelectSeq(s, LAMBDA c : c < 128)

\* punycode_encode
PunycodeEncode(s) ==
    (IF BasicChars(s) # <<>> THEN BasicChars(s) \o Text("-") ELSE <<>>)
        \o GenerateIntegers(Len(BasicChars(s)),
                            InsertionUnsort(s, {s[i] : i \in 1..Len(s)} \ 0..127, 128, -1),
                            1, 72)

\* the value of a digit of the codec ("a" to "z" in either case, "0" to
\* "9"), -1 for another character
PunycodeValue(c) ==
    IF c \in 65..90 THEN c - 65
    ELSE IF c \in 97..122 THEN c - 97
    ELSE IF c \in 48..57 THEN c - 22
    ELSE -1

\* decode_generalized_number: <<the place after the number, the number>>;
\* the number is -1 when the text ends, a character is no digit or the
\* number is above 71303168 (64 * 1114112: a label has at most 63
\* characters, so such a number moves the decoder beyond the last code point)
RECURSIVE DecodeNumber(_, _, _, _, _, _)
DecodeNumber(extended, extpos, bias, sum, w, j) ==
    IF extpos > Len(extended) \/ PunycodeValue(extended[extpos]) < 0 THEN <<extpos, -1>>
    ELSE IF PunycodeValue(extended[extpos]) > (71303168 - sum) \div w THEN <<extpos, -1>>
    ELSE IF PunycodeValue(extended[extpos]) < Threshold(j, bias)
    THEN <<extpos + 1, sum + PunycodeValue(extended[extpos]) * w>>
    ELSE DecodeNumber(extended, extpos + 1, bias,
                      sum + PunycodeValue(extended[extpos]) * w,
                      IF w > 71303168 \div (36 - Threshold(j, bias)) THEN 71303169
                      ELSE w * (36 - Threshold(j, bias)),
                      j + 1)

Insert(base, pos, char) == SubSeq(base, 1, pos) \o <<char>> \o From(base, pos)

\* insertion_sort: the text decoded, or that the decoder fails (a character
\* above sys.maxunicode, 1114111); `number` is the number read at `extpos`
RECURSIVE InsertionSort(_, _, _, _, _, _)
RECURSIVE Inserted(_, _, _, _, _, _, _)
Inserted(base, extended, char, pos, bias, extpos, number) ==
    IF number[2] < 0 \/ char + (pos \div (Len(base) + 1)) > 1114111
    THEN [ok |-> FALSE, text |-> <<>>]
    ELSE InsertionSort(Insert(base, pos % (Len(base) + 1), char + (pos \div (Len(base) + 1))),
                       extended,
                       char + (pos \div (Len(base) + 1)),
                       pos % (Len(base) + 1),
                       Adapt(number[2], extpos = 1, Len(base) + 1),
                       number[1])
InsertionSort(base, extended, char, pos, bias, extpos) ==
    IF extpos > Len(extended) THEN [ok |-> TRUE, text |-> base]
    ELSE Inserted(base, extended, char,
                  pos + DecodeNumber(extended, extpos, bias, 0, 1, 0)[2] + 1,
                  bias, extpos, DecodeNumber(extended, extpos, bias, 0, 1, 0))

LastHyphen(s) ==
    IF \E i \in 1..Len(s) : s[i] = Ord["-"]
    THEN CHOOSE i \in 1..Len(s) : s[i] = Ord["-"] /\ \A j \in (i + 1)..Len(s) : s[j] # Ord["-"]
    ELSE 0

\* punycode_decode of a text of ASCII
PunycodeDecode(s) ==
    InsertionSort(SubSeq(s, 1, LastHyphen(s) - 1), From(s, LastHyphen(s)), 128, -1, 72, 1)

(* idna.encode *)

AcePrefix == Text("xn--")

\* ulabel raises no IDNAError for a label of ASCII in lower case
UlabelOk(label) ==
    IF StartsWith(label, AcePrefix)
    THEN /\ Len(label) > 4
         /\ label[Len(label)] # Ord["-"]
         /\ PunycodeDecode(From(label, 4)).ok
         /\ CheckLabel(PunycodeDecode(From(label, 4)).text)
    ELSE CheckLabel(label)

\* alabel: the label encoded, or that it is refused
Alabel(label) ==
    IF Len(label) > 63 THEN [ok |-> FALSE, text |-> <<>>]
    ELSE IF IsAscii(label) THEN [ok |-> UlabelOk(Lower(label)), text |-> label]
    ELSE IF Len(label) <= 59 /\ CheckLabel(label) /\ Len(PunycodeEncode(label)) <= 59
    THEN [ok |-> TRUE, text |-> AcePrefix \o PunycodeEncode(label)]
    ELSE [ok |-> FALSE, text |-> <<>>]

\* the labels of a name: the last one, when it is empty, stands for the dot
\* that ends the name
LabelsEncoded(labels) ==
    [i \in 1..Len(labels) |->
        IF i = Len(labels) /\ i > 1 /\ labels[i] = <<>> THEN [ok |-> TRUE, text |-> <<>>]
        ELSE Alabel(labels[i])]

\* the encoded labels joined by dots: a name has at most 253 characters
\* before the dot that ends it
Encoded(encoded) ==
    IF \E i \in 1..Len(encoded) : ~encoded[i].ok THEN [ok |-> FALSE, text |-> <<>>]
    ELSE [ok |-> Len(Join([i \in 1..Len(encoded) |-> encoded[i].text], Ord["."]))
                    <= (IF encoded[Len(encoded)].text = <<>> THEN 254 ELSE 253),
          text |-> Join([i \in 1..Len(encoded) |-> encoded[i].text], Ord["."])]

\* idna.encode(s, strict=True): the labels stand between the dots
IdnaEncodeStrict(s) == Encoded(LabelsEncoded(Split(s, Ord["."])))


\* the table uts46data as idna.encode(host, uts46=True) reads it, std3_rules
\* and transitional being false: the characters that are kept (status V, D,
\* or 3 without replacement)
Uts46Valid ==
    << <<0,64>>, <<91,127>>, <<161,167>>, <<169,169>>, <<171,172>>, <<174,174>>,
       <<176,177>>, <<182,183>>, <<187,187>>, <<191,191>>, <<215,215>>, <<223,255>>,
       <<257,257>>, <<259,259>>, <<261,261>>, <<263,263>>, <<265,265>>, <<267,267>>,
       <<269,269>>, <<271,271>>, <<273,273>>, <<275,275>>, <<277,277>>, <<279,279>>,
       <<281,281>>, <<283,283>>, <<285,285>>, <<287,287>>, <<289,289>>, <<291,291>>,
       <<293,293>>, <<295,295>>, <<297,297>>, <<299,299>>, <<301,301>>, <<303,303>>,
       <<305,305>>, <<309,309>>, <<311,312>>, <<314,314>>, <<316,316>>, <<318,318>>,
       <<322,322>>, <<324,324>>, <<326,326>>, <<328,328>>, <<331,331>>, <<333,333>>,
       <<335,335>>, <<337,337>>, <<339,339>>, <<341,341>>, <<343,343>>, <<345,345>>,
       <<347,347>>, <<349,349>>, <<351,351>>, <<353,353>>, <<355,355>>, <<357,357>>,
       <<359,359>>, <<361,361>>, <<363,363>>, <<365,365>>, <<367,367>>, <<369,369>>,
       <<371,371>>, <<373,373>>, <<375,375>>, <<378,378>>, <<380,380>>, <<382,382>>,
       <<384,384>>, <<387,387>>, <<389,389>>, <<392,392>>, <<396,397>>, <<402,402>>,
       <<405,405>>, <<409,411>>, <<414,414>>, <<417,417>>, <<419,419>>, <<421,421>>,
       <<424,424>>, <<426,427>>, <<429,429>>, <<432,432>>, <<436,436>>, <<438,438>>,
       <<441,443>>, <<445,451>>, <<462,462>>, <<464,464>>, <<466,466>>, <<468,468>>,
       <<470,470>>, <<472,472>>, <<474,474>>, <<476,477>>, <<479,479>>, <<481,481>>,
       <<483,483>>, <<485,485>>, <<487,487>>, <<489,489>>, <<491,491>>, <<493,493>>,
       <<495,496>>, <<501,501>>, <<505,505>>, <<507,507>>, <<509,509>>, <<511,511>>,
       <<513,513>>, <<515,515>>, <<517,517>>, <<519,519>>, <<521,521>>, <<523,523>>,
       <<525,525>>, <<527,527>>, <<529,529>>, <<531,531>>, <<533,533>>, <<535,535>>,
       <<537,537>>, <<539,539>>, <<541,541>>, <<543,543>>, <<545,545>>, <<547,547>>,
       <<549,549>>, <<551,551>>, <<553,553>>, <<555,555>>, <<557,557>>, <<559,559>>,
       <<561,561>>, <<563,569>>, <<572,572>>, <<575,576>>, <<578,578>>, <<583,583>>,
       <<585,585>>, <<587,587>>, <<589,589>>, <<591,687>>, <<697,727>>, <<734,735>>,
       <<741,831>>, <<834,834>>, <<838,846>>, <<848,879>>, <<881,881>>, <<883,883>>,
       <<885,885>>, <<887,887>>, <<891,893>>, <<912,912>>, <<940,974>>, <<983,983>>,
       <<985,985>>, <<987,987>>, <<989,989>>, <<991,991>>, <<993,993>>, <<995,995>>,
       <<997,997>>, <<999,999>>, <<1001,1001>>, <<1003,1003>>, <<1005,1005>>, <<1007,1007>>,
       <<1011,1011>>, <<1014,1014>>, <<1016,1016>>, <<1019,1020>>, <<1072,1119>>, <<1121,1121>>,
       <<1123,1123>>, <<1125,1125>>, <<1127,1127>>, <<1129,1129>>, <<1131,1131>>, <<1133,1133>>,
       <<1135,1135>>, <<1137,1137>>, <<1139,1139>>, <<1141,1141>>, <<1143,1143>>, <<1145,1145>>,
       <<1147,1147>>, <<1149,1149>>, <<1151,1151>>, <<1153,1161>>, <<1163,1163>>, <<1165,1165>>,
       <<1167,1167>>, <<1169,1169>>, <<1171,1171>>, <<1173,1173>>, <<1175,1175>>, <<1177,1177>>,
       <<1179,1179>>, <<1181,1181>>, <<1183,1183>>, <<1185,1185>>, <<1187,1187>>, <<1189,1189>>,
       <<1191,1191>>, <<1193,1193>>, <<1195,1195>>, <<1197,1197>>, <<1199,1199>>, <<1201,1201>>,
       <<1203,1203>>, <<1205,1205>>, <<1207,1207>>, <<1209,1209>>, <<1211,1211>>, <<1213,1213>>,
       <<1215,1215>>, <<1218,1218>>, <<1220,1220>>, <<1222,1222>>, <<1224,1224>>, <<1226,1226>>,
       <<1228,1228>>, <<1230,1231>>, <<1233,1233>>, <<1235,1235>>, <<1237,1237>>, <<1239,1239>>,
       <<1241,1241>>, <<1243,1243>>, <<1245,1245>>, <<1247,1247>>, <<1249,1249>>, <<1251,1251>>,
       <<1253,1253>>, <<1255,1255>>, <<1257,1257>>, <<1259,1259>>, <<1261,1261>>, <<1263,1263>>,
       <<1265,1265>>, <<1267,1267>>, <<1269,1269>>, <<1271,1271>>, <<1273,1273>>, <<1275,1275>>,
       <<1277,1277>>, <<1279,1279>>, <<1281,1281>>, <<1283,1283>>, <<1285,1285>>, <<1287,1287>>,
       <<1289,1289>>, <<1291,1291>>, <<1293,1293>>, <<1295,1295>>, <<1297,1297>>, <<1299,1299>>,
       <<1301,1301>>, <<1303,1303>>, <<1305,1305>>, <<1307,1307>>, <<1309,1309>>, <<1311,1311>>,
       <<1313,1313>>, <<1315,1315>>, <<1317,1317>>, <<1319,1319>>, <<1321,1321>>, <<1323,1323>>,
       <<1325,1325>>, <<1327,1327>>, <<1369,1414>>, <<1416,1418>>, <<1421,1423>>, <<1425,1479>>,
       <<1488,1514>>, <<1519,1524>>, <<1542,1563>>, <<1565,1652>>, <<1657,1756>>, <<1758,1805>>,
       <<1808,1866>>, <<1869,1969>>, <<1984,2042>>, <<2045,2093>>, <<2096,2110>>, <<2112,2139>>,
       <<2142,2142>>, <<2144,2154>>, <<2160,2190>>, <<2200,2273>>, <<2275,2391>>, <<2400,2435>>,
       <<2437,2444>>, <<2447,2448>>, <<2451,2472>>, <<2474,2480>>, <<2482,2482>>, <<2486,2489>>,
       <<2492,2500>>, <<2503,2504>>, <<2507,2510>>, <<2519,2519>>, <<2528,2531>>, <<2534,2558>>,
       <<2561,2563>>, <<2565,2570>>, <<2575,2576>>, <<2579,2600>>, <<2602,2608>>, <<2610,2610>>,
       <<2613,2613>>, <<2616,2617>>, <<2620,2620>>, <<2622,2626>>, <<2631,2632>>, <<2635,2637>>,
       <<2641,2641>>, <<2652,2652>>, <<2662,2678>>, <<2689,2691>>, <<2693,2701>>, <<2703,2705>>,
       <<2707,2728>>, <<2730,2736>>, <<2738,2739>>, <<2741,2745>>, <<2748,2757>>, <<2759,2761>>,
       <<2763,2765>>, <<2768,2768>>, <<2784,2787>>, <<2790,2801>>, <<2809,2815>>, <<2817,2819>>,
       <<2821,2828>>, <<2831,2832>>, <<2835,2856>>, <<2858,2864>>, <<2866,2867>>, <<2869,2873>>,
       <<2876,2884>>, <<2887,2888>>, <<2891,2893>>, <<2901,2903>>, <<2911,2915>>, <<2918,2935>>,
       <<2946,2947>>, <<2949,2954>>, <<2958,2960>>, <<2962,2965>>, <<2969,2970>>, <<2972,2972>>,
       <<2974,2975>>, <<2979,2980>>, <<2984,2986>>, <<2990,3001>>, <<3006,3010>>, <<3014,3016>>,
       <<3018,3021>>, <<3024,3024>>, <<3031,3031>>, <<3046,3066>>, <<3072,3084>>, <<3086,3088>>,
       <<3090,3112>>, <<3114,3129>>, <<3132,3140>>, <<3142,3144>>, <<3146,3149>>, <<3157,3158>>,
       <<3160,3162>>, <<3165,3165>>, <<3168,3171>>, <<3174,3183>>, <<3191,3212>>, <<3214,3216>>,
       <<3218,3240>>, <<3242,3251>>, <<3253,3257>>, <<3260,3268>>, <<3270,3272>>, <<3274,3277>>,
       <<3285,3286>>, <<3293,3294>>, <<3296,3299>>, <<3302,3311>>, <<3313,3315>>, <<3328,3340>>,
       <<3342,3344>>, <<3346,3396>>, <<3398,3400>>, <<3402,3407>>, <<3412,3427>>, <<3430,3455>>,
       <<3457,3459>>, <<3461,3478>>, <<3482,3505>>, <<3507,3515>>, <<3517,3517>>, <<3520,3526>>,
       <<3530,3530>>, <<3535,3540>>, <<3542,3542>>, <<3544,3551>>, <<3558,3567>>, <<3570,3572>>,
       <<3585,3634>>, <<3636,3642>>, <<3647,3675>>, <<3713,3714>>, <<3716,3716>>, <<3718,3722>>,
       <<3724,3747>>, <<3749,3749>>, <<3751,3762>>, <<3764,3773>>, <<3776,3780>>, <<3782,3782>>,
       <<3784,3790>>, <<3792,3801>>, <<3806,3807>>, <<3840,3851>>, <<3853,3906>>, <<3908,3911>>,
       <<3913,3916>>, <<3918,3921>>, <<3923,3926>>, <<3928,3931>>, <<3933,3944>>, <<3946,3948>>,
       <<3953,3954>>, <<3956,3956>>, <<3962,3968>>, <<3970,3986>>, <<3988,3991>>, <<3993,3996>>,
       <<3998,4001>>, <<4003,4006>>, <<4008,4011>>, <<4013,4024>>, <<4026,4028>>, <<4030,4044>>,
       <<4046,4058>>, <<4096,4255>>, <<4304,4347>>, <<4349,4446>>, <<4449,4680>>, <<4682,4685>>,
       <<4688,4694>>, <<4696,4696>>, <<4698,4701>>, <<4704,4744>>, <<4746,4749>>, <<4752,4784>>,
       <<4786,4789>>, <<4792,4798>>, <<4800,4800>>, <<4802,4805>>, <<4808,4822>>, <<4824,4880>>,
       <<4882,4885>>, <<4888,4954>>, <<4957,4988>>, <<4992,5017>>, <<5024,5109>>, <<5120,5759>>,
       <<5761,5788>>, <<5792,5880>>, <<5888,5909>>, <<5919,5942>>, <<5952,5971>>, <<5984,5996>>,
       <<5998,6000>>, <<6002,6003>>, <<6016,6067>>, <<6070,6109>>, <<6112,6121>>, <<6128,6137>>,
       <<6144,6149>>, <<6151,6154>>, <<6160,6169>>, <<6176,6264>>, <<6272,6314>>, <<6320,6389>>,
       <<6400,6430>>, <<6432,6443>>, <<6448,6459>>, <<6464,6464>>, <<6468,6509>>, <<6512,6516>>,
       <<6528,6571>>, <<6576,6601>>, <<6608,6618>>, <<6622,6683>>, <<6686,6750>>, <<6752,6780>>,
       <<6783,6793>>, <<6800,6809>>, <<6816,6829>>, <<6832,6862>>, <<6912,6988>>, <<6992,7038>>,
       <<7040,7155>>, <<7164,7223>>, <<7227,7241>>, <<7245,7295>>, <<7360,7367>>, <<7376,7418>>,
       <<7424,7467>>, <<7471,7471>>, <<7483,7483>>, <<7502,7502>>, <<7531,7543>>, <<7545,7578>>,
       <<7616,7679>>, <<7681,7681>>, <<7683,7683>>, <<7685,7685>>, <<7687,7687>>, <<7689,7689>>,
       <<7691,7691>>, <<7693,7693>>, <<7695,7695>>, <<7697,7697>>, <<7699,7699>>, <<7701,7701>>,
       <<7703,7703>>, <<7705,7705>>, <<7707,7707>>, <<7709,7709>>, <<7711,7711>>, <<7713,7713>>,
       <<7715,7715>>, <<7717,7717>>, <<7719,7719>>, <<7721,7721>>, <<7723,7723>>, <<7725,7725>>,
       <<7727,7727>>, <<7729,7729>>, <<7731,7731>>, <<7733,7733>>, <<7735,7735>>, <<7737,7737>>,
       <<7739,7739>>, <<7741,7741>>, <<7743,7743>>, <<7745,7745>>, <<7747,7747>>, <<7749,7749>>,
       <<7751,7751>>, <<7753,7753>>, <<7755,7755>>, <<7757,7757>>, <<7759,7759>>, <<7761,7761>>,
       <<7763,7763>>, <<7765,7765>>, <<7767,7767>>, <<7769,7769>>, <<7771,7771>>, <<7773,7773>>,
       <<7775,7775>>, <<7777,7777>>, <<7779,7779>>, <<7781,7781>>, <<7783,7783>>, <<7785,7785>>,
       <<7787,7787>>, <<7789,7789>>, <<7791,7791>>, <<7793,7793>>, <<7795,7795>>, <<7797,7797>>,
       <<7799,7799>>, <<7801,7801>>, <<7803,7803>>, <<7805,7805>>, <<7807,7807>>, <<7809,7809>>,
       <<7811,7811>>, <<7813,7813>>, <<7815,7815>>, <<7817,7817>>, <<7819,7819>>, <<7821,7821>>,
       <<7823,7823>>, <<7825,7825>>, <<7827,7827>>, <<7829,7833>>, <<7836,7837>>, <<7839,7839>>,
       <<7841,7841>>, <<7843,7843>>, <<7845,7845>>, <<7847,7847>>, <<7849,7849>>, <<7851,7851>>,
       <<7853,7853>>, <<7855,7855>>, <<7857,7857>>, <<7859,7859>>, <<7861,7861>>, <<7863,7863>>,
       <<7865,7865>>, <<7867,7867>>, <<7869,7869>>, <<7871,7871>>, <<7873,7873>>, <<7875,7875>>,
       <<7877,7877>>, <<7879,7879>>, <<7881,7881>>, <<7883,7883>>, <<7885,7885>>, <<7887,7887>>,
       <<7889,7889>>, <<7891,7891>>, <<7893,7893>>, <<7895,7895>>, <<7897,7897>>, <<7899,7899>>,
       <<7901,7901>>, <<7903,7903>>, <<7905,7905>>, <<7907,7907>>, <<7909,7909>>, <<7911,7911>>,
       <<7913,7913>>, <<7915,7915>>, <<7917,7917>>, <<7919,7919>>, <<7921,7921>>, <<7923,7923>>,
       <<7925,7925>>, <<7927,7927>>, <<7929,7929>>, <<7931,7931>>, <<7933,7933>>, <<7935,7943>>,
       <<7952,7957>>, <<7968,7975>>, <<7984,7991>>, <<8000,8005>>, <<8016,8023>>, <<8032,8039>>,
       <<8048,8048>>, <<8050,8050>>, <<8052,8052>>, <<8054,8054>>, <<8056,8056>>, <<8058,8058>>,
       <<8060,8060>>, <<8112,8113>>, <<8118,8118>>, <<8134,8134>>, <<8144,8146>>, <<8150,8151>>,
       <<8160,8162>>, <<8164,8167>>, <<8182,8182>>, <<8204,8205>>, <<8208,8208>>, <<8210,8214>>,
       <<8216,8227>>, <<8231,8231>>, <<8240,8242>>, <<8245,8245>>, <<8248,8251>>, <<8253,8253>>,
       <<8255,8262>>, <<8266,8278>>, <<8280,8286>>, <<8352,8359>>, <<8361,8384>>, <<8400,8432>>,
       <<8452,8452>>, <<8456,8456>>, <<8468,8468>>, <<8471,8472>>, <<8478,8479>>, <<8483,8483>>,
       <<8485,8485>>, <<8487,8487>>, <<8489,8489>>, <<8494,8494>>, <<8506,8506>>, <<8513,8516>>,
       <<8522,8527>>, <<8576,8578>>, <<8580,8584>>, <<8586,8587>>, <<8592,8747>>, <<8750,8750>>,
       <<8753,9000>>, <<9003,9254>>, <<9280,9290>>, <<9451,10763>>, <<10765,10867>>, <<10871,10971>>,
       <<10973,11123>>, <<11126,11157>>, <<11159,11263>>, <<11312,11359>>, <<11361,11361>>, <<11365,11366>>,
       <<11368,11368>>, <<11370,11370>>, <<11372,11372>>, <<11377,11377>>, <<11379,11380>>, <<11382,11387>>,
       <<11393,11393>>, <<11395,11395>>, <<11397,11397>>, <<11399,11399>>, <<11401,11401>>, <<11403,11403>>,
       <<11405,11405>>, <<11407,11407>>, <<11409,11409>>, <<11411,11411>>, <<11413,11413>>, <<11415,11415>>,
       <<11417,11417>>, <<11419,11419>>, <<11421,11421>>, <<11423,11423>>, <<11425,11425>>, <<11427,11427>>,
       <<11429,11429>>, <<11431,11431>>, <<11433,11433>>, <<11435,11435>>, <<11437,11437>>, <<11439,11439>>,
       <<11441,11441>>, <<11443,11443>>, <<11445,11445>>, <<11447,11447>>, <<11449,11449>>, <<11451,11451>>,
       <<11453,11453>>, <<11455,11455>>, <<11457,11457>>, <<11459,11459>>, <<11461,11461>>, <<11463,11463>>,
       <<11465,11465>>, <<11467,11467>>, <<11469,11469>>, <<11471,11471>>, <<11473,11473>>, <<11475,11475>>,
       <<11477,11477>>, <<11479,11479>>, <<11481,11481>>, <<11483,11483>>, <<11485,11485>>, <<11487,11487>>,
       <<11489,11489>>, <<11491,11498>>, <<11500,11500>>, <<11502,11505>>, <<11507,11507>>, <<11513,11557>>,
       <<11559,11559>>, <<11565,11565>>, <<11568,11623>>, <<11632,11632>>, <<11647,11670>>, <<11680,11686>>,
       <<11688,11694>>, <<11696,11702>>, <<11704,11710>>, <<11712,11718>>, <<11720,11726>>, <<11728,11734>>,
       <<11736,11742>>, <<11744,11869>>, <<11904,11929>>, <<11931,11934>>, <<11936,12018>>, <<12289,12289>>,
       <<12291,12341>>, <<12343,12343>>, <<12347,12351>>, <<12353,12438>>, <<12441,12442>>, <<12445,12446>>,
       <<12448,12542>>, <<12549,12591>>, <<12688,12689>>, <<12704,12771>>, <<12784,12799>>, <<12872,12879>>,
       <<12927,12927>>, <<13312,42124>>, <<42128,42182>>, <<42192,42539>>, <<42561,42561>>, <<42563,42563>>,
       <<42565,42565>>, <<42567,42567>>, <<42569,42569>>, <<42571,42571>>, <<42573,42573>>, <<42575,42575>>,
       <<42577,42577>>, <<42579,42579>>, <<42581,42581>>, <<42583,42583>>, <<42585,42585>>, <<42587,42587>>,
       <<42589,42589>>, <<42591,42591>>, <<42593,42593>>, <<42595,42595>>, <<42597,42597>>, <<42599,42599>>,
       <<42601,42601>>, <<42603,42603>>, <<42605,42623>>, <<42625,42625>>, <<42627,42627>>, <<42629,42629>>,
       <<42631,42631>>, <<42633,42633>>, <<42635,42635>>, <<42637,42637>>, <<42639,42639>>, <<42641,42641>>,
       <<42643,42643>>, <<42645,42645>>, <<42647,42647>>, <<42649,42649>>, <<42651,42651>>, <<42654,42743>>,
       <<42752,42785>>, <<42787,42787>>, <<42789,42789>>, <<42791,42791>>, <<42793,42793>>, <<42795,42795>>,
       <<42797,42797>>, <<42799,42801>>, <<42803,42803>>, <<42805,42805>>, <<42807,42807>>, <<42809,42809>>,
       <<42811,42811>>, <<42813,42813>>, <<42815,42815>>, <<42817,42817>>, <<42819,42819>>, <<42821,42821>>,
       <<42823,42823>>, <<42825,42825>>, <<42827,42827>>, <<42829,42829>>, <<42831,42831>>, <<42833,42833>>,
       <<42835,42835>>, <<42837,42837>>, <<42839,42839>>, <<42841,42841>>, <<42843,42843>>, <<42845,42845>>,
       <<42847,42847>>, <<42849,42849>>, <<42851,42851>>, <<42853,42853>>, <<42855,42855>>, <<42857,42857>>,
       <<42859,42859>>, <<42861,42861>>, <<42863,42863>>, <<42865,42872>>, <<42874,42874>>, <<42876,42876>>,
       <<42879,42879>>, <<42881,42881>>, <<42883,42883>>, <<42885,42885>>, <<42887,42890>>, <<42892,42892>>,
       <<42894,42895>>, <<42897,42897>>, <<42899,42901>>, <<42903,42903>>, <<42905,42905>>, <<42907,42907>>,
       <<42909,42909>>, <<42911,42911>>, <<42913,42913>>, <<42915,42915>>, <<42917,42917>>, <<42919,42919>>,
       <<42921,42921>>, <<42927,42927>>, <<42933,42933>>, <<42935,42935>>, <<42937,42937>>, <<42939,42939>>,
       <<42941,42941>>, <<42943,42943>>, <<42945,42945>>, <<42947,42947>>, <<42952,42952>>, <<42954,42954>>,
       <<42961,42961>>, <<42963,42963>>, <<42965,42965>>, <<42967,42967>>, <<42969,42969>>, <<42998,42999>>,
       <<43002,43052>>, <<43056,43065>>, <<43072,43127>>, <<43136,43205>>, <<43214,43225>>, <<43232,43347>>,
       <<43359,43388>>, <<43392,43469>>, <<43471,43481>>, <<43486,43518>>, <<43520,43574>>, <<43584,43597>>,
       <<43600,43609>>, <<43612,43714>>, <<43739,43766>>, <<43777,43782>>, <<43785,43790>>, <<43793,43798>>,
       <<43808,43814>>, <<43816,43822>>, <<43824,43867>>, <<43872,43880>>, <<43882,43883>>, <<43968,44013>>,
       <<44016,44025>>, <<44032,55203>>, <<55216,55238>>, <<55243,55291>>, <<64014,64015>>, <<64017,64017>>,
       <<64019,64020>>, <<64031,64031>>, <<64033,64033>>, <<64035,64036>>, <<64039,64041>>, <<64286,64286>>,
       <<64434,64450>>, <<64830,64847>>, <<64975,64975>>, <<65021,65023>>, <<65056,65071>>, <<65093,65094>>,
       <<65139,65139>>, <<65536,65547>>, <<65549,65574>>, <<65576,65594>>, <<65596,65597>>, <<65599,65613>>,
       <<65616,65629>>, <<65664,65786>>, <<65792,65794>>, <<65799,65843>>, <<65847,65934>>, <<65936,65948>>,
       <<65952,65952>>, <<66000,66045>>, <<66176,66204>>, <<66208,66256>>, <<66272,66299>>, <<66304,66339>>,
       <<66349,66378>>, <<66384,66426>>, <<66432,66461>>, <<66463,66499>>, <<66504,66517>>, <<66600,66717>>,
       <<66720,66729>>, <<66776,66811>>, <<66816,66855>>, <<66864,66915>>, <<66927,66927>>, <<66967,66977>>,
       <<66979,66993>>, <<66995,67001>>, <<67003,67004>>, <<67072,67382>>, <<67392,67413>>, <<67424,67431>>,
       <<67456,67456>>, <<67584,67589>>, <<67592,67592>>, <<67594,67637>>, <<67639,67640>>, <<67644,67644>>,
       <<67647,67669>>, <<67671,67742>>, <<67751,67759>>, <<67808,67826>>, <<67828,67829>>, <<67835,67867>>,
       <<67871,67897>>, <<67903,67903>>, <<67968,68023>>, <<68028,68047>>, <<68050,68099>>, <<68101,68102>>,
       <<68108,68115>>, <<68117,68119>>, <<68121,68149>>, <<68152,68154>>, <<68159,68168>>, <<68176,68184>>,
       <<68192,68255>>, <<68288,68326>>, <<68331,68342>>, <<68352,68405>>, <<68409,68437>>, <<68440,68466>>,
       <<68472,68497>>, <<68505,68508>>, <<68521,68527>>, <<68608,68680>>, <<68800,68850>>, <<68858,68903>>,
       <<68912,68921>>, <<69216,69246>>, <<69248,69289>>, <<69291,69293>>, <<69296,69297>>, <<69373,69415>>,
       <<69424,69465>>, <<69488,69513>>, <<69552,69579>>, <<69600,69622>>, <<69632,69709>>, <<69714,69749>>,
       <<69759,69820>>, <<69822,69826>>, <<69840,69864>>, <<69872,69881>>, <<69888,69940>>, <<69942,69959>>,
       <<69968,70006>>, <<70016,70111>>, <<70113,70132>>, <<70144,70161>>, <<70163,70209>>, <<70272,70278>>,
       <<70280,70280>>, <<70282,70285>>, <<70287,70301>>, <<70303,70313>>, <<70320,70378>>, <<70384,70393>>,
       <<70400,70403>>, <<70405,70412>>, <<70415,70416>>, <<70419,70440>>, <<70442,70448>>, <<70450,70451>>,
       <<70453,70457>>, <<70459,70468>>, <<70471,70472>>, <<70475,70477>>, <<70480,70480>>, <<70487,70487>>,
       <<70493,70499>>, <<70502,70508>>, <<70512,70516>>, <<70656,70747>>, <<70749,70753>>, <<70784,70855>>,
       <<70864,70873>>, <<71040,71093>>, <<71096,71133>>, <<71168,71236>>, <<71248,71257>>, <<71264,71276>>,
       <<71296,71353>>, <<71360,71369>>, <<71424,71450>>, <<71453,71467>>, <<71472,71494>>, <<71680,71739>>,
       <<71872,71922>>, <<71935,71942>>, <<71945,71945>>, <<71948,71955>>, <<71957,71958>>, <<71960,71989>>,
       <<71991,71992>>, <<71995,72006>>, <<72016,72025>>, <<72096,72103>>, <<72106,72151>>, <<72154,72164>>,
       <<72192,72263>>, <<72272,72354>>, <<72368,72440>>, <<72448,72457>>, <<72704,72712>>, <<72714,72758>>,
       <<72760,72773>>, <<72784,72812>>, <<72816,72847>>, <<72850,72871>>, <<72873,72886>>, <<72960,72966>>,
       <<72968,72969>>, <<72971,73014>>, <<73018,73018>>, <<73020,73021>>, <<73023,73031>>, <<73040,73049>>,
       <<73056,73061>>, <<73063,73064>>, <<73066,73102>>, <<73104,73105>>, <<73107,73112>>, <<73120,73129>>,
       <<73440,73464>>, <<73472,73488>>, <<73490,73530>>, <<73534,73561>>, <<73648,73648>>, <<73664,73713>>,
       <<73727,74649>>, <<74752,74862>>, <<74864,74868>>, <<74880,75075>>, <<77712,77810>>, <<77824,78895>>,
       <<78912,78933>>, <<82944,83526>>, <<92160,92728>>, <<92736,92766>>, <<92768,92777>>, <<92782,92862>>,
       <<92864,92873>>, <<92880,92909>>, <<92912,92917>>, <<92928,92997>>, <<93008,93017>>, <<93019,93025>>,
       <<93027,93047>>, <<93053,93071>>, <<93792,93850>>, <<93952,94026>>, <<94031,94087>>, <<94095,94111>>,
       <<94176,94180>>, <<94192,94193>>, <<94208,100343>>, <<100352,101589>>, <<101632,101640>>, <<110576,110579>>,
       <<110581,110587>>, <<110589,110590>>, <<110592,110882>>, <<110898,110898>>, <<110928,110930>>, <<110933,110933>>,
       <<110948,110951>>, <<110960,111355>>, <<113664,113770>>, <<113776,113788>>, <<113792,113800>>, <<113808,113817>>,
       <<113820,113823>>, <<118528,118573>>, <<118576,118598>>, <<118608,118723>>, <<118784,119029>>, <<119040,119078>>,
       <<119081,119133>>, <<119141,119154>>, <<119163,119226>>, <<119233,119274>>, <<119296,119365>>, <<119488,119507>>,
       <<119520,119539>>, <<119552,119638>>, <<119648,119672>>, <<120832,121483>>, <<121499,121503>>, <<121505,121519>>,
       <<122624,122654>>, <<122661,122666>>, <<122880,122886>>, <<122888,122904>>, <<122907,122913>>, <<122915,122916>>,
       <<122918,122922>>, <<123023,123023>>, <<123136,123180>>, <<123184,123197>>, <<123200,123209>>, <<123214,123215>>,
       <<123536,123566>>, <<123584,123641>>, <<123647,123647>>, <<124112,124153>>, <<124896,124902>>, <<124904,124907>>,
       <<124909,124910>>, <<124912,124926>>, <<124928,125124>>, <<125127,125142>>, <<125218,125259>>, <<125264,125273>>,
       <<125278,125279>>, <<126065,126132>>, <<126209,126269>>, <<126704,126705>>, <<126976,127019>>, <<127024,127123>>,
       <<127136,127150>>, <<127153,127167>>, <<127169,127183>>, <<127185,127221>>, <<127243,127247>>, <<127279,127279>>,
       <<127312,127337>>, <<127341,127375>>, <<127377,127405>>, <<127462,127487>>, <<127584,127589>>, <<127744,128727>>,
       <<128732,128748>>, <<128752,128764>>, <<128768,128886>>, <<128891,128985>>, <<128992,129003>>, <<129008,129008>>,
       <<129024,129035>>, <<129040,129095>>, <<129104,129113>>, <<129120,129159>>, <<129168,129197>>, <<129200,129201>>,
       <<129280,129619>>, <<129632,129645>>, <<129648,129660>>, <<129664,129672>>, <<129680,129725>>, <<129727,129733>>,
       <<129742,129755>>, <<129760,129768>>, <<129776,129784>>, <<129792,129938>>, <<129940,129994>>, <<131072,173791>>,
       <<173824,177977>>, <<177984,178205>>, <<178208,183969>>, <<183984,191456>>, <<196608,201546>>, <<201552,205743>> >>

\* the characters that are dropped (status I)
Uts46Ignored ==
    << <<173,173>>, <<847,847>>, <<6155,6157>>, <<6159,6159>>, <<8203,8203>>, <<8288,8288>>,
       <<8292,8292>>, <<65024,65039>>, <<65279,65279>>, <<113824,113827>>, <<917760,917999>> >>

\* the characters replaced by one character: <<first, last, step, delta>>
\* for the characters first, first + step, ..., last, each replaced by the
\* character delta further
Uts46Single ==
    << <<65,90,1,32>>, <<160,160,1,-128>>, <<170,170,1,-73>>, <<178,179,1,-128>>, <<181,181,1,775>>,
       <<185,185,1,-136>>, <<186,186,1,-75>>, <<192,214,1,32>>, <<216,222,1,32>>, <<256,302,2,1>>,
       <<308,310,2,1>>, <<313,317,2,1>>, <<321,327,2,1>>, <<330,374,2,1>>, <<376,376,1,-121>>,
       <<377,381,2,1>>, <<383,383,1,-268>>, <<385,385,1,210>>, <<386,388,2,1>>, <<390,390,1,206>>,
       <<391,391,1,1>>, <<393,394,1,205>>, <<395,395,1,1>>, <<398,398,1,79>>, <<399,399,1,202>>,
       <<400,400,1,203>>, <<401,401,1,1>>, <<403,403,1,205>>, <<404,404,1,207>>, <<406,406,1,211>>,
       <<407,407,1,209>>, <<408,408,1,1>>, <<412,412,1,211>>, <<413,413,1,213>>, <<415,415,1,214>>,
       <<416,420,2,1>>, <<422,422,1,218>>, <<423,423,1,1>>, <<425,425,1,218>>, <<428,428,1,1>>,
       <<430,430,1,218>>, <<431,431,1,1>>, <<433,434,1,217>>, <<435,437,2,1>>, <<439,439,1,219>>,
       <<440,440,1,1>>, <<444,444,1,1>>, <<461,475,2,1>>, <<478,494,2,1>>, <<500,500,1,1>>,
       <<502,502,1,-97>>, <<503,503,1,-56>>, <<504,542,2,1>>, <<544,544,1,-130>>, <<546,562,2,1>>,
       <<570,570,1,10795>>, <<571,571,1,1>>, <<573,573,1,-163>>, <<574,574,1,10792>>, <<577,577,1,1>>,
       <<579,579,1,-195>>, <<580,580,1,69>>, <<581,581,1,71>>, <<582,590,2,1>>, <<688,688,1,-584>>,
       <<689,689,1,-75>>, <<690,690,1,-584>>, <<691,691,1,-577>>, <<692,692,1,-59>>, <<693,693,1,-58>>,
       <<694,694,1,-53>>, <<695,695,1,-576>>, <<696,696,1,-575>>, <<736,736,1,-125>>, <<737,737,1,-629>>,
       <<738,738,1,-623>>, <<739,739,1,-619>>, <<740,740,1,-79>>, <<832,833,1,-64>>, <<835,835,1,-48>>,
       <<837,837,1,116>>, <<880,882,2,1>>, <<884,884,1,-187>>, <<886,886,1,1>>, <<894,894,1,-835>>,
       <<895,895,1,116>>, <<902,902,1,38>>, <<903,903,1,-720>>, <<904,906,1,37>>, <<908,908,1,64>>,
       <<910,911,1,63>>, <<913,929,1,32>>, <<931,939,1,32>>, <<975,975,1,8>>, <<976,976,1,-30>>,
       <<977,977,1,-25>>, <<978,978,1,-13>>, <<979,979,1,-6>>, <<980,980,1,-9>>, <<981,981,1,-15>>,
       <<982,982,1,-22>>, <<984,1006,2,1>>, <<1008,1008,1,-54>>, <<1009,1009,1,-48>>, <<1010,1010,1,-47>>,
       <<1012,1012,1,-60>>, <<1013,1013,1,-64>>, <<1015,1015,1,1>>, <<1017,1017,1,-54>>, <<1018,1018,1,1>>,
       <<1021,1023,1,-130>>, <<1024,1039,1,80>>, <<1040,1071,1,32>>, <<1120,1152,2,1>>, <<1162,1214,2,1>>,
       <<1217,1229,2,1>>, <<1232,1326,2,1>>, <<1329,1366,1,48>>, <<3852,3852,1,-1>>, <<4295,4295,1,7264>>,
       <<4301,4301,1,7264>>, <<4348,4348,1,-32>>, <<5112,5117,1,-8>>, <<7296,7296,1,-6222>>, <<7297,7297,1,-6221>>,
       <<7298,7298,1,-6212>>, <<7299,7300,1,-6210>>, <<7301,7301,1,-6211>>, <<7302,7302,1,-6204>>, <<7303,7303,1,-6180>>,
       <<7304,7304,1,35267>>, <<7312,7354,1,-3008>>, <<7357,7359,1,-3008>>, <<7468,7468,1,-7371>>, <<7469,7469,1,-7239>>,
       <<7470,7472,2,-7372>>, <<7473,7473,1,-7372>>, <<7474,7474,1,-6997>>, <<7475,7482,1,-7372>>, <<7484,7484,1,-7373>>,
       <<7485,7485,1,-6938>>, <<7486,7486,1,-7374>>, <<7487,7487,1,-7373>>, <<7488,7489,1,-7372>>, <<7490,7490,1,-7371>>,
       <<7491,7491,1,-7394>>, <<7492,7493,1,-6900>>, <<7494,7494,1,-68>>, <<7495,7495,1,-7397>>, <<7496,7497,1,-7396>>,
       <<7498,7498,1,-6897>>, <<7499,7500,1,-6896>>, <<7501,7501,1,-7398>>, <<7503,7503,1,-7396>>, <<7504,7504,1,-7395>>,
       <<7505,7505,1,-7174>>, <<7506,7506,1,-7395>>, <<7507,7507,1,-6911>>, <<7508,7509,1,-62>>, <<7510,7510,1,-7398>>,
       <<7511,7512,1,-7395>>, <<7513,7513,1,-60>>, <<7514,7514,1,-6891>>, <<7515,7515,1,-7397>>, <<7516,7516,1,-55>>,
       <<7517,7519,1,-6571>>, <<7520,7521,1,-6554>>, <<7522,7522,1,-7417>>, <<7523,7523,1,-7409>>, <<7524,7525,1,-7407>>,
       <<7526,7527,1,-6580>>, <<7528,7528,1,-6567>>, <<7529,7530,1,-6563>>, <<7544,7544,1,-6459>>, <<7579,7579,1,-6985>>,
       <<7580,7580,1,-7481>>, <<7581,7581,1,-6984>>, <<7582,7582,1,-7342>>, <<7583,7583,1,-6979>>, <<7584,7584,1,-7482>>,
       <<7585,7585,1,-6978>>, <<7586,7586,1,-6977>>, <<7587,7587,1,-6974>>, <<7588,7590,1,-6972>>, <<7591,7591,1,-44>>,
       <<7592,7592,1,-6923>>, <<7593,7593,1,-6972>>, <<7594,7594,1,-37>>, <<7595,7595,1,-6924>>, <<7596,7596,1,-6971>>,
       <<7597,7597,1,-6973>>, <<7598,7601,1,-6972>>, <<7602,7602,1,-6970>>, <<7603,7604,1,-6961>>, <<7605,7605,1,-7178>>,
       <<7606,7607,1,-6957>>, <<7608,7608,1,-156>>, <<7609,7610,1,-6958>>, <<7611,7611,1,-7489>>, <<7612,7614,1,-6956>>,
       <<7615,7615,1,-6663>>, <<7680,7828,2,1>>, <<7835,7835,1,-58>>, <<7840,7934,2,1>>, <<7944,7951,1,-8>>,
       <<7960,7965,1,-8>>, <<7976,7983,1,-8>>, <<7992,7999,1,-8>>, <<8008,8013,1,-8>>, <<8025,8031,2,-8>>,
       <<8040,8047,1,-8>>, <<8049,8049,1,-7109>>, <<8051,8051,1,-7110>>, <<8053,8053,1,-7111>>, <<8055,8055,1,-7112>>,
       <<8057,8057,1,-7085>>, <<8059,8059,1,-7086>>, <<8061,8061,1,-7087>>, <<8120,8121,1,-8>>, <<8122,8122,1,-74>>,
       <<8123,8123,1,-7183>>, <<8126,8126,1,-7173>>, <<8136,8136,1,-86>>, <<8137,8137,1,-7196>>, <<8138,8138,1,-86>>,
       <<8139,8139,1,-7197>>, <<8147,8147,1,-7235>>, <<8152,8153,1,-8>>, <<8154,8154,1,-100>>, <<8155,8155,1,-7212>>,
       <<8163,8163,1,-7219>>, <<8168,8169,1,-8>>, <<8170,8170,1,-112>>, <<8171,8171,1,-7198>>, <<8172,8172,1,-7>>,
       <<8175,8175,1,-8079>>, <<8184,8184,1,-128>>, <<8185,8185,1,-7213>>, <<8186,8186,1,-126>>, <<8187,8187,1,-7213>>,
       <<8192,8192,1,-8160>>, <<8193,8193,1,-8161>>, <<8194,8194,1,-8162>>, <<8195,8195,1,-8163>>, <<8196,8196,1,-8164>>,
       <<8197,8197,1,-8165>>, <<8198,8198,1,-8166>>, <<8199,8199,1,-8167>>, <<8200,8200,1,-8168>>, <<8201,8201,1,-8169>>,
       <<8202,8202,1,-8170>>, <<8209,8209,1,-1>>, <<8239,8239,1,-8207>>, <<8287,8287,1,-8255>>, <<8304,8304,1,-8256>>,
       <<8305,8305,1,-8200>>, <<8308,8313,1,-8256>>, <<8314,8314,1,-8271>>, <<8315,8315,1,407>>, <<8316,8316,1,-8255>>,
       <<8317,8318,1,-8277>>, <<8319,8319,1,-8209>>, <<8320,8329,1,-8272>>, <<8330,8330,1,-8287>>, <<8331,8331,1,391>>,
       <<8332,8332,1,-8271>>, <<8333,8334,1,-8293>>, <<8336,8336,1,-8239>>, <<8337,8337,1,-8236>>, <<8338,8338,1,-8227>>,
       <<8339,8339,1,-8219>>, <<8340,8340,1,-7739>>, <<8341,8341,1,-8237>>, <<8342,8345,1,-8235>>, <<8346,8346,1,-8234>>,
       <<8347,8348,1,-8232>>, <<8450,8450,1,-8351>>, <<8455,8455,1,-7852>>, <<8458,8459,1,-8355>>, <<8460,8460,1,-8356>>,
       <<8461,8461,1,-8357>>, <<8462,8462,1,-8358>>, <<8463,8463,1,-8168>>, <<8464,8464,1,-8359>>, <<8465,8465,1,-8360>>,
       <<8466,8466,1,-8358>>, <<8467,8469,2,-8359>>, <<8473,8475,1,-8361>>, <<8476,8476,1,-8362>>, <<8477,8477,1,-8363>>,
       <<8484,8484,1,-8362>>, <<8486,8486,1,-7517>>, <<8488,8488,1,-8366>>, <<8490,8490,1,-8383>>, <<8491,8491,1,-8262>>,
       <<8492,8493,1,-8394>>, <<8495,8495,1,-8394>>, <<8496,8497,1,-8395>>, <<8499,8499,1,-8390>>, <<8500,8500,1,-8389>>,
       <<8501,8504,1,-7013>>, <<8505,8505,1,-8400>>, <<8508,8508,1,-7548>>, <<8509,8509,1,-7562>>, <<8510,8510,1,-7563>>,
       <<8511,8511,1,-7551>>, <<8512,8512,1,209>>, <<8517,8517,1,-8417>>, <<8518,8519,1,-8418>>, <<8520,8521,1,-8415>>,
       <<8544,8544,1,-8439>>, <<8548,8548,1,-8430>>, <<8553,8553,1,-8433>>, <<8556,8556,1,-8448>>, <<8557,8558,1,-8458>>,
       <<8559,8559,1,-8450>>, <<8560,8560,1,-8455>>, <<8564,8564,1,-8446>>, <<8569,8569,1,-8449>>, <<8572,8572,1,-8464>>,
       <<8573,8574,1,-8474>>, <<8575,8575,1,-8466>>, <<9001,9002,1,3295>>, <<9312,9320,1,-9263>>, <<9398,9423,1,-9301>>,
       <<9424,9449,1,-9327>>, <<9450,9450,1,-9402>>, <<11264,11311,1,48>>, <<11360,11360,1,1>>, <<11362,11362,1,-10743>>,
       <<11363,11363,1,-3814>>, <<11364,11364,1,-10727>>, <<11367,11371,2,1>>, <<11373,11373,1,-10780>>, <<11374,11374,1,-10749>>,
       <<11375,11375,1,-10783>>, <<11376,11376,1,-10782>>, <<11378,11378,1,1>>, <<11381,11381,1,1>>, <<11388,11388,1,-11282>>,
       <<11389,11389,1,-11271>>, <<11390,11391,1,-10815>>, <<11392,11490,2,1>>, <<11499,11501,2,1>>, <<11506,11506,1,1>>,
       <<11631,11631,1,-14>>, <<11935,11935,1,15662>>, <<12019,12019,1,28844>>, <<12032,12032,1,7936>>, <<12033,12033,1,7975>>,
       <<12034,12034,1,7988>>, <<12035,12035,1,7996>>, <<12036,12036,1,8021>>, <<12037,12037,1,8064>>, <<12038,12038,1,8070>>,
       <<12039,12039,1,8089>>, <<12040,12040,1,8114>>, <<12041,12041,1,8758>>, <<12042,12042,1,8795>>, <<12043,12043,1,8800>>,
       <<12044,12044,1,8822>>, <<12045,12045,1,8841>>, <<12046,12046,1,8861>>, <<12047,12047,1,8913>>, <<12048,12048,1,8933>>,
       <<12049,12049,1,8943>>, <<12050,12050,1,9097>>, <<12051,12051,1,9190>>, <<12052,12052,1,9217>>, <<12053,12053,1,9221>>,
       <<12054,12054,1,9250>>, <<12055,12055,1,9258>>, <<12056,12056,1,9284>>, <<12057,12057,1,9296>>, <<12058,12058,1,9320>>,
       <<12059,12059,1,9371>>, <<12060,12060,1,9388>>, <<12061,12061,1,9414>>, <<12062,12062,1,10169>>, <<12063,12063,1,10240>>,
       <<12064,12064,1,10699>>, <<12065,12065,1,10721>>, <<12066,12066,1,10728>>, <<12067,12067,1,10738>>, <<12068,12068,1,10755>>,
       <<12069,12069,1,10830>>, <<12070,12070,1,11306>>, <<12071,12071,1,11353>>, <<12072,12072,1,11472>>, <<12073,12073,1,11494>>,
       <<12074,12074,1,11512>>, <<12075,12075,1,11533>>, <<12076,12076,1,11586>>, <<12077,12077,1,11588>>, <<12078,12078,1,11949>>,
       <<12079,12079,1,11958>>, <<12080,12080,1,11969>>, <<12081,12081,1,11981>>, <<12082,12082,1,12096>>, <<12083,12083,1,12103>>,
       <<12084,12084,1,12107>>, <<12085,12085,1,12223>>, <<12086,12086,1,12232>>, <<12087,12087,1,12244>>, <<12088,12088,1,12251>>,
       <<12089,12089,1,12311>>, <<12090,12090,1,12327>>, <<12091,12091,1,12344>>, <<12092,12092,1,12423>>, <<12093,12093,1,13003>>,
       <<12094,12094,1,13048>>, <<12095,12095,1,13068>>, <<12096,12096,1,13807>>, <<12097,12097,1,13811>>, <<12098,12098,1,13893>>,
       <<12099,12099,1,13908>>, <<12100,12100,1,13920>>, <<12101,12101,1,13940>>, <<12102,12102,1,13978>>, <<12103,12103,1,13982>>,
       <<12104,12104,1,14248>>, <<12105,12105,1,14271>>, <<12106,12106,1,14302>>, <<12107,12107,1,15317>>, <<12108,12108,1,15382>>,
       <<12109,12109,1,15404>>, <<12110,12110,1,15461>>, <<12111,12111,1,15484>>, <<12112,12112,1,15492>>, <<12113,12113,1,15498>>,
       <<12114,12114,1,15549>>, <<12115,12115,1,15553>>, <<12116,12116,1,15584>>, <<12117,12117,1,16662>>, <<12118,12118,1,17108>>,
       <<12119,12119,1,17119>>, <<12120,12120,1,17123>>, <<12121,12121,1,17126>>, <<12122,12122,1,17133>>, <<12123,12123,1,17150>>,
       <<12124,12124,1,17151>>, <<12125,12125,1,17231>>, <<12126,12126,1,17446>>, <<12127,12127,1,17450>>, <<12128,12128,1,17788>>,
       <<12129,12129,1,17797>>, <<12130,12130,1,17846>>, <<12131,12131,1,17852>>, <<12132,12132,1,17860>>, <<12133,12133,1,17867>>,
       <<12134,12134,1,17957>>, <<12135,12135,1,17963>>, <<12136,12136,1,18190>>, <<12137,12137,1,18196>>, <<12138,12138,1,18244>>,
       <<12139,12139,1,18260>>, <<12140,12140,1,18306>>, <<12141,12141,1,18542>>, <<12142,12142,1,18548>>, <<12143,12143,1,18564>>,
       <<12144,12144,1,18890>>, <<12145,12145,1,19015>>, <<12146,12146,1,19020>>, <<12147,12147,1,19201>>, <<12148,12148,1,19287>>,
       <<12149,12149,1,19332>>, <<12150,12150,1,19709>>, <<12151,12151,1,19841>>, <<12152,12152,1,20414>>, <<12153,12153,1,20440>>,
       <<12154,12154,1,20496>>, <<12155,12155,1,20546>>, <<12156,12156,1,20613>>, <<12157,12157,1,20623>>, <<12158,12158,1,20628>>,
       <<12159,12159,1,20660>>, <<12160,12160,1,20735>>, <<12161,12161,1,20744>>, <<12162,12162,1,21089>>, <<12163,12163,1,21095>>,
       <<12164,12164,1,21103>>, <<12165,12165,1,21111>>, <<12166,12166,1,21126>>, <<12167,12167,1,21140>>, <<12168,12168,1,21143>>,
       <<12169,12169,1,21221>>, <<12170,12170,1,21224>>, <<12171,12171,1,21229>>, <<12172,12172,1,22209>>, <<12173,12173,1,22238>>,
       <<12174,12174,1,22706>>, <<12175,12175,1,22717>>, <<12176,12176,1,22739>>, <<12177,12177,1,23021>>, <<12178,12178,1,23033>>,
       <<12179,12179,1,23103>>, <<12180,12180,1,23148>>, <<12181,12181,1,23714>>, <<12182,12182,1,23728>>, <<12183,12183,1,23742>>,
       <<12184,12184,1,23776>>, <<12185,12185,1,23812>>, <<12186,12186,1,24010>>, <<12187,12187,1,24021>>, <<12188,12188,1,24087>>,
       <<12189,12189,1,24334>>, <<12190,12190,1,24364>>, <<12191,12191,1,24572>>, <<12192,12192,1,24592>>, <<12193,12193,1,24596>>,
       <<12194,12194,1,24815>>, <<12195,12195,1,24998>>, <<12196,12196,1,25122>>, <<12197,12197,1,25127>>, <<12198,12198,1,25131>>,
       <<12199,12199,1,26064>>, <<12200,12200,1,26072>>, <<12201,12201,1,26227>>, <<12202,12202,1,26380>>, <<12203,12203,1,26382>>,
       <<12204,12204,1,26428>>, <<12205,12205,1,26532>>, <<12206,12206,1,26544>>, <<12207,12207,1,26547>>, <<12208,12208,1,26553>>,
       <<12209,12209,1,26650>>, <<12210,12210,1,26683>>, <<12211,12211,1,26688>>, <<12212,12212,1,26701>>, <<12213,12213,1,26867>>,
       <<12214,12214,1,26917>>, <<12215,12215,1,26920>>, <<12216,12216,1,27102>>, <<12217,12217,1,27104>>, <<12218,12218,1,27122>>,
       <<12219,12219,1,27373>>, <<12220,12220,1,27420>>, <<12221,12221,1,27426>>, <<12222,12222,1,27495>>, <<12223,12223,1,27504>>,
       <<12224,12224,1,27506>>, <<12225,12225,1,27515>>, <<12226,12226,1,27544>>, <<12227,12227,1,27938>>, <<12228,12228,1,28337>>,
       <<12229,12229,1,28346>>, <<12230,12230,1,28383>>, <<12231,12231,1,28404>>, <<12232,12232,1,28411>>, <<12233,12233,1,28420>>,
       <<12234,12234,1,28423>>, <<12235,12235,1,28462>>, <<12236,12236,1,28465>>, <<12237,12237,1,28481>>, <<12238,12238,1,28485>>,
       <<12239,12239,1,28497>>, <<12240,12240,1,28523>>, <<12241,12241,1,28537>>, <<12242,12242,1,28544>>, <<12243,12243,1,28602>>,
       <<12244,12244,1,28616>>, <<12245,12245,1,28619>>, <<12288,12288,1,-12256>>, <<12290,12290,1,-12244>>, <<12342,12342,1,-36>>,
       <<12344,12344,1,8969>>, <<12345,12346,1,8971>>, <<12593,12594,1,-8241>>, <<12595,12595,1,-8073>>, <<12596,12596,1,-8242>>,
       <<12597,12598,1,-8073>>, <<12599,12601,1,-8244>>, <<12602,12607,1,-8074>>, <<12608,12608,1,-8230>>, <<12609,12611,1,-8251>>,
       <<12612,12612,1,-8227>>, <<12613,12622,1,-8252>>, <<12623,12643,1,-8174>>, <<12645,12646,1,-8273>>, <<12647,12648,1,-8096>>,
       <<12649,12649,1,-8093>>, <<12650,12650,1,-8092>>, <<12651,12651,1,-8088>>, <<12652,12652,1,-8085>>, <<12653,12653,1,-8084>>,
       <<12654,12654,1,-8274>>, <<12655,12655,1,-8082>>, <<12656,12656,1,-8081>>, <<12657,12658,1,-8276>>, <<12659,12659,1,-8275>>,
       <<12660,12661,1,-8274>>, <<12662,12662,1,-8271>>, <<12663,12663,1,-8270>>, <<12664,12668,1,-8269>>, <<12669,12669,1,-8267>>,
       <<12670,12670,1,-8264>>, <<12671,12671,1,-8255>>, <<12672,12672,1,-8249>>, <<12673,12673,1,-8245>>, <<12674,12675,1,-8081>>,
       <<12676,12678,1,-8237>>, <<12679,12680,1,-8195>>, <<12681,12681,1,-8193>>, <<12682,12683,1,-8185>>, <<12684,12684,1,-8184>>,
       <<12685,12685,1,-8175>>, <<12686,12686,1,-8173>>, <<12690,12690,1,7278>>, <<12691,12691,1,7417>>, <<12692,12692,1,7285>>,
       <<12693,12693,1,9542>>, <<12694,12694,1,7284>>, <<12695,12695,1,7318>>, <<12696,12696,1,7283>>, <<12697,12697,1,17305>>,
       <<12698,12698,1,7359>>, <<12699,12699,1,7294>>, <<12700,12700,1,7269>>, <<12701,12701,1,10124>>, <<12702,12702,1,9618>>,
       <<12703,12703,1,7451>>, <<12868,12868,1,8971>>, <<12869,12869,1,11319>>, <<12870,12870,1,13121>>, <<12871,12871,1,18760>>,
       <<12896,12896,1,-8544>>, <<12897,12898,1,-8543>>, <<12899,12901,1,-8542>>, <<12902,12902,1,-8541>>, <<12903,12904,1,-8540>>,
       <<12905,12909,1,-8539>>, <<12910,12910,1,31122>>, <<12911,12911,1,32297>>, <<12912,12912,1,32884>>, <<12913,12913,1,34059>>,
       <<12914,12914,1,34646>>, <<12915,12915,1,35233>>, <<12916,12916,1,36408>>, <<12917,12917,1,37583>>, <<12918,12918,1,38170>>,
       <<12919,12919,1,39345>>, <<12920,12920,1,39932>>, <<12921,12921,1,40519>>, <<12922,12922,1,41106>>, <<12923,12923,1,41693>>,
       <<12926,12926,1,37938>>, <<12928,12928,1,7040>>, <<12929,12929,1,7179>>, <<12930,12930,1,7047>>, <<12931,12931,1,9304>>,
       <<12932,12932,1,7184>>, <<12933,12933,1,7912>>, <<12934,12934,1,7037>>, <<12935,12935,1,7908>>, <<12936,12936,1,7125>>,
       <<12937,12937,1,8376>>, <<12938,12938,1,13438>>, <<12939,12939,1,15840>>, <<12940,12940,1,14760>>, <<12941,12941,1,13467>>,
       <<12942,12942,1,24387>>, <<12943,12943,1,9360>>, <<12944,12944,1,13141>>, <<12945,12945,1,13721>>, <<12946,12946,1,13431>>,
       <<12947,12947,1,18091>>, <<12948,12948,1,8569>>, <<12949,12949,1,16356>>, <<12950,12950,1,23051>>, <<12951,12951,1,18118>>,
       <<12952,12952,1,8220>>, <<12953,12953,1,18239>>, <<12954,12954,1,17053>>, <<12955,12955,1,9944>>, <<12956,12956,1,24013>>,
       <<12957,12957,1,7821>>, <<12958,12958,1,8402>>, <<12959,12959,1,14921>>, <<12960,12960,1,25957>>, <<12961,12961,1,7280>>,
       <<12962,12962,1,7927>>, <<12963,12963,1,14528>>, <<12964,12964,1,7014>>, <<12965,12965,1,7048>>, <<12966,12966,1,7013>>,
       <<12967,12967,1,11071>>, <<12968,12968,1,8523>>, <<12969,12969,1,8338>>, <<12970,12970,1,10477>>, <<12971,12971,1,10427>>,
       <<12972,12972,1,17463>>, <<12973,12973,1,7252>>, <<12974,12974,1,23065>>, <<12975,12975,1,8357>>, <<12976,12976,1,9836>>,
       <<13008,13008,1,-558>>, <<13009,13009,1,-557>>, <<13010,13010,1,-556>>, <<13011,13011,1,-555>>, <<13012,13013,1,-554>>,
       <<13014,13014,1,-553>>, <<13015,13015,1,-552>>, <<13016,13016,1,-551>>, <<13017,13017,1,-550>>, <<13018,13018,1,-549>>,
       <<13019,13019,1,-548>>, <<13020,13020,1,-547>>, <<13021,13021,1,-546>>, <<13022,13022,1,-545>>, <<13023,13023,1,-544>>,
       <<13024,13024,1,-543>>, <<13025,13025,1,-541>>, <<13026,13026,1,-540>>, <<13027,13027,1,-539>>, <<13028,13033,1,-538>>,
       <<13034,13034,1,-536>>, <<13035,13035,1,-534>>, <<13036,13036,1,-532>>, <<13037,13037,1,-530>>, <<13038,13042,1,-528>>,
       <<13043,13043,1,-527>>, <<13044,13044,1,-526>>, <<13045,13050,1,-525>>, <<13051,13054,1,-524>>, <<42560,42604,2,1>>,
       <<42624,42650,2,1>>, <<42652,42652,1,-41554>>, <<42653,42653,1,-41553>>, <<42786,42798,2,1>>, <<42802,42862,2,1>>,
       <<42864,42864,1,-1>>, <<42873,42875,2,1>>, <<42877,42877,1,-35332>>, <<42878,42886,2,1>>, <<42891,42891,1,1>>,
       <<42893,42893,1,-42280>>, <<42896,42898,2,1>>, <<42902,42920,2,1>>, <<42922,42922,1,-42308>>, <<42923,42923,1,-42319>>,
       <<42924,42924,1,-42315>>, <<42925,42925,1,-42305>>, <<42926,42926,1,-42308>>, <<42928,42928,1,-42258>>, <<42929,42929,1,-42282>>,
       <<42930,42930,1,-42261>>, <<42931,42931,1,928>>, <<42932,42946,2,1>>, <<42948,42948,1,-48>>, <<42949,42949,1,-42307>>,
       <<42950,42950,1,-35384>>, <<42951,42953,2,1>>, <<42960,42960,1,1>>, <<42966,42968,2,1>>, <<42994,42994,1,-42895>>,
       <<42995,42995,1,-42893>>, <<42996,42996,1,-42883>>, <<42997,42997,1,1>>, <<43000,43000,1,-42705>>, <<43001,43001,1,-42662>>,
       <<43868,43868,1,-1077>>, <<43869,43869,1,-38>>, <<43870,43870,1,-43251>>, <<43871,43871,1,-13>>, <<43881,43881,1,-43228>>,
       <<43888,43967,1,-38864>>, <<63744,63744,1,-27832>>, <<63745,63745,1,-37389>>, <<63746,63746,1,-27192>>, <<63747,63747,1,-27707>>,
       <<63748,63748,1,-35379>>, <<63749,63749,1,-43731>>, <<63750,63750,1,-42273>>, <<63751,63751,1,-22891>>, <<63752,63752,1,-22892>>,
       <<63753,63753,1,-40888>>, <<63754,63754,1,-26425>>, <<63755,63755,1,-41860>>, <<63756,63756,1,-40900>>, <<63757,63757,1,-38679>>,
       <<63758,63758,1,-33445>>, <<63759,63759,1,-31114>>, <<63760,63760,1,-29393>>, <<63761,63761,1,-29015>>, <<63762,63762,1,-28698>>,
       <<63763,63763,1,-26756>>, <<63764,63764,1,-36626>>, <<63765,63765,1,-35834>>, <<63766,63766,1,-34877>>, <<63767,63767,1,-34105>>,
       <<63768,63768,1,-29915>>, <<63769,63769,1,-26543>>, <<63770,63770,1,-24361>>, <<63771,63771,1,-43673>>, <<63772,63772,1,-42407>>,
       <<63773,63773,1,-36377>>, <<63774,63774,1,-34563>>, <<63775,63775,1,-29426>>, <<63776,63776,1,-23298>>, <<63777,63777,1,-39889>>,
       <<63778,63778,1,-35127>>, <<63779,63779,1,-29526>>, <<63780,63780,1,-28608>>, <<63781,63781,1,-38492>>, <<63782,63782,1,-30542>>,
       <<63783,63783,1,-28936>>, <<63784,63784,1,-39518>>, <<63785,63785,1,-37394>>, <<63786,63786,1,-35776>>, <<63787,63787,1,-34351>>,
       <<63788,63788,1,-26718>>, <<63789,63789,1,-43431>>, <<63790,63790,1,-42871>>, <<63791,63791,1,-42577>>, <<63792,63792,1,-37996>>,
       <<63793,63793,1,-36446>>, <<63794,63794,1,-34594>>, <<63795,63795,1,-33356>>, <<63796,63796,1,-31027>>, <<63797,63797,1,-29487>>,
       <<63798,63798,1,-29402>>, <<63799,63799,1,-27464>>, <<63800,63800,1,-25094>>, <<63801,63801,1,-24010>>, <<63802,63802,1,-23360>>,
       <<63803,63803,1,-32943>>, <<63804,63804,1,-32701>>, <<63805,63805,1,-31645>>, <<63806,63806,1,-30069>>, <<63807,63807,1,-26171>>,
       <<63808,63808,1,-23233>>, <<63809,63809,1,-28267>>, <<63810,63810,1,-41059>>, <<63811,63811,1,-39487>>, <<63812,63812,1,-31972>>,
       <<63813,63813,1,-30919>>, <<63814,63814,1,-34532>>, <<63815,63815,1,-32893>>, <<63816,63816,1,-27782>>, <<63817,63817,1,-25170>>,
       <<63818,63818,1,-41074>>, <<63819,63819,1,-40169>>, <<63820,63820,1,-36665>>, <<63821,63821,1,-35699>>, <<63822,63822,1,-35391>>,
       <<63823,63823,1,-31776>>, <<63824,63824,1,-31513>>, <<63825,63825,1,-25350>>, <<63826,63826,1,-42624>>, <<63827,63827,1,-30920>>,
       <<63828,63828,1,-42872>>, <<63829,63829,1,-42889>>, <<63830,63830,1,-32570>>, <<63831,63831,1,-31641>>, <<63832,63832,1,-30055>>,
       <<63833,63833,1,-25316>>, <<63834,63834,1,-28122>>, <<63835,63835,1,-38540>>, <<63836,63836,1,-36698>>, <<63837,63837,1,-28255>>,
       <<63838,63838,1,-43813>>, <<63839,63839,1,-40312>>, <<63840,63840,1,-39246>>, <<63841,63841,1,-34266>>, <<63842,63842,1,-33778>>,
       <<63843,63843,1,-42572>>, <<63844,63844,1,-32873>>, <<63845,63845,1,-43430>>, <<63846,63846,1,-39357>>, <<63847,63847,1,-43866>>,
       <<63848,63848,1,-35996>>, <<63849,63849,1,-37873>>, <<63850,63850,1,-31816>>, <<63851,63851,1,-42408>>, <<63852,63852,1,-41230>>,
       <<63853,63853,1,-33388>>, <<63854,63854,1,-29989>>, <<63855,63855,1,-28357>>, <<63856,63856,1,-36278>>, <<63857,63857,1,-27073>>,
       <<63858,63858,1,-36074>>, <<63859,63859,1,-38517>>, <<63860,63860,1,-30351>>, <<63861,63861,1,-38357>>, <<63862,63862,1,-33809>>,
       <<63863,63863,1,-43721>>, <<63864,63864,1,-43023>>, <<63865,63865,1,-42928>>, <<63866,63866,1,-37113>>, <<63867,63867,1,-31892>>,
       <<63868,63868,1,-30477>>, <<63869,63869,1,-28331>>, <<63870,63870,1,-26543>>, <<63871,63871,1,-42634>>, <<63872,63872,1,-42302>>,
       <<63873,63873,1,-40974>>, <<63874,63874,1,-39574>>, <<63875,63875,1,-37822>>, <<63876,63876,1,-35206>>, <<63877,63877,1,-32859>>,
       <<63878,63878,1,-25561>>, <<63879,63879,1,-24349>>, <<63880,63880,1,-23281>>, <<63881,63881,1,-23227>>, <<63882,63882,1,-42735>>,
       <<63883,63883,1,-37573>>, <<63884,63884,1,-36373>>, <<63885,63885,1,-27179>>, <<63886,63886,1,-39706>>, <<63887,63887,1,-38911>>,
       <<63888,63888,1,-38800>>, <<63889,63889,1,-38135>>, <<63890,63890,1,-35439>>, <<63891,63891,1,-34890>>, <<63892,63892,1,-34059>>,
       <<63893,63893,1,-32715>>, <<63894,63894,1,-31650>>, <<63895,63895,1,-31016>>, <<63896,63896,1,-27250>>, <<63897,63897,1,-29867>>,
       <<63898,63898,1,-26999>>, <<63899,63899,1,-26193>>, <<63900,63900,1,-42885>>, <<63901,63901,1,-42746>>, <<63902,63902,1,-42209>>,
       <<63903,63903,1,-35031>>, <<63904,63904,1,-28894>>, <<63905,63905,1,-28407>>, <<63906,63906,1,-39641>>, <<63907,63907,1,-39342>>,
       <<63908,63908,1,-38441>>, <<63909,63909,1,-36343>>, <<63910,63910,1,-32104>>, <<63911,63911,1,-34354>>, <<63912,63912,1,-43716>>,
       <<63913,63913,1,-41648>>, <<63914,63914,1,-40387>>, <<63915,63915,1,-39921>>, <<63916,63916,1,-39312>>, <<63917,63917,1,-34299>>,
       <<63918,63918,1,-34117>>, <<63919,63919,1,-31253>>, <<63920,63920,1,-31082>>, <<63921,63921,1,-26493>>, <<63922,63922,1,-25276>>,
       <<63923,63923,1,-25195>>, <<63924,63924,1,-24988>>, <<63925,63925,1,-43562>>, <<63926,63926,1,-32776>>, <<63927,63927,1,-26627>>,
       <<63928,63928,1,-25344>>, <<63929,63929,1,-39128>>, <<63930,63930,1,-43828>>, <<63931,63931,1,-43233>>, <<63932,63932,1,-40398>>,
       <<63933,63933,1,-40318>>, <<63934,63934,1,-37925>>, <<63935,63935,1,-36797>>, <<63936,63936,1,-34802>>, <<63937,63937,1,-33663>>,
       <<63938,63938,1,-29894>>, <<63939,63939,1,-26951>>, <<63940,63940,1,-23095>>, <<63941,63941,1,-37693>>, <<63942,63942,1,-25496>>,
       <<63943,63943,1,-42814>>, <<63944,63944,1,-37453>>, <<63945,63945,1,-37334>>, <<63946,63946,1,-35977>>, <<63947,63947,1,-35631>>,
       <<63948,63948,1,-34243>>, <<63949,63949,1,-33908>>, <<63950,63950,1,-33123>>, <<63951,63951,1,-31935>>, <<63952,63952,1,-24946>>,
       <<63953,63953,1,-43108>>, <<63954,63954,1,-38820>>, <<63955,63955,1,-25435>>, <<63956,63956,1,-43433>>, <<63957,63957,1,-40124>>,
       <<63958,63958,1,-35820>>, <<63959,63959,1,-27309>>, <<63960,63960,1,-39501>>, <<63961,63961,1,-39061>>, <<63962,63962,1,-37315>>,
       <<63963,63963,1,-34388>>, <<63964,63964,1,-25430>>, <<63965,63965,1,-42932>>, <<63966,63966,1,-42447>>, <<63967,63967,1,-40314>>,
       <<63968,63968,1,-37837>>, <<63969,63969,1,-37523>>, <<63970,63970,1,-37178>>, <<63971,63971,1,-36094>>, <<63972,63972,1,-34270>>,
       <<63973,63973,1,-33795>>, <<63974,63974,1,-31341>>, <<63975,63975,1,-28952>>, <<63976,63976,1,-28935>>, <<63977,63977,1,-26653>>,
       <<63978,63978,1,-25352>>, <<63979,63979,1,-42668>>, <<63980,63980,1,-35634>>, <<63981,63981,1,-42448>>, <<63982,63982,1,-34846>>,
       <<63983,63983,1,-34135>>, <<63984,63984,1,-29686>>, <<63985,63985,1,-25422>>, <<63986,63986,1,-23963>>, <<63987,63987,1,-23380>>,
       <<63988,63988,1,-37469>>, <<63989,63989,1,-35882>>, <<63990,63990,1,-30734>>, <<63991,63991,1,-32556>>, <<63992,63992,1,-32472>>,
       <<63993,63993,1,-32103>>, <<63994,63994,1,-34618>>, <<63995,63995,1,-35170>>, <<63996,63996,1,-28324>>, <<63997,63997,1,-43837>>,
       <<63998,63998,1,-30408>>, <<63999,63999,1,-42949>>, <<64000,64000,1,-43001>>, <<64001,64001,1,-39771>>, <<64002,64002,1,-38703>>,
       <<64003,64003,1,-32045>>, <<64004,64004,1,-40575>>, <<64005,64005,1,-36071>>, <<64006,64006,1,-37714>>, <<64007,64007,1,-27340>>,
       <<64008,64008,1,-29116>>, <<64009,64009,1,-25532>>, <<64010,64010,1,-28799>>, <<64011,64011,1,-39736>>, <<64012,64012,1,-43212>>,
       <<64013,64013,1,-42061>>, <<64016,64016,1,-41398>>, <<64018,64018,1,-37790>>, <<64021,64021,1,-43063>>, <<64022,64022,1,-34540>>,
       <<64023,64023,1,-33613>>, <<64024,64024,1,-32988>>, <<64025,64025,1,-32955>>, <<64026,64026,1,-32949>>, <<64027,64027,1,-32908>>,
       <<64028,64028,1,-25286>>, <<64029,64029,1,-32095>>, <<64030,64030,1,-31329>>, <<64032,64032,1,-29710>>, <<64034,64034,1,-28458>>,
       <<64037,64037,1,-27117>>, <<64038,64038,1,-26921>>, <<64042,64042,1,-24891>>, <<64043,64043,1,-24879>>, <<64044,64044,1,-24836>>,
       <<64045,64045,1,-23673>>, <<64046,64046,1,-26960>>, <<64047,64047,1,-25464>>, <<64048,64048,1,-43650>>, <<64049,64049,1,-43338>>,
       <<64050,64050,1,-43237>>, <<64051,64051,1,-42858>>, <<64052,64052,1,-42832>>, <<64053,64053,1,-42724>>, <<64054,64054,1,-42137>>,
       <<64055,64055,1,-42033>>, <<64056,64056,1,-41936>>, <<64057,64057,1,-41465>>, <<64058,64058,1,-41362>>, <<64059,64059,1,-40407>>,
       <<64060,64060,1,-40398>>, <<64061,64061,1,-39337>>, <<64062,64062,1,-39126>>, <<64063,64063,1,-39089>>, <<64064,64064,1,-38990>>,
       <<64065,64065,1,-38130>>, <<64066,64066,1,-37984>>, <<64067,64067,1,-37810>>, <<64068,64068,1,-37311>>, <<64069,64069,1,-36046>>,
       <<64070,64070,1,-35884>>, <<64071,64071,1,-35621>>, <<64072,64072,1,-35034>>, <<64073,64073,1,-34846>>, <<64074,64074,1,-34344>>,
       <<64075,64075,1,-33210>>, <<64076,64076,1,-33038>>, <<64077,64077,1,-33028>>, <<64078,64078,1,-33030>>, <<64079,64079,1,-33023>>,
       <<64080,64080,1,-33018>>, <<64081,64081,1,-33012>>, <<64082,64083,1,-32965>>, <<64084,64084,1,-32788>>, <<64085,64085,1,-32724>>,
       <<64086,64086,1,-32406>>, <<64087,64087,1,-31843>>, <<64088,64088,1,-31823>>, <<64089,64089,1,-31768>>, <<64090,64090,1,-31464>>,
       <<64091,64091,1,-31318>>, <<64092,64092,1,-30831>>, <<64093,64093,1,-30692>>, <<64094,64094,1,-30693>>, <<64095,64095,1,-30216>>,
       <<64096,64096,1,-29008>>, <<64097,64097,1,-28875>>, <<64098,64098,1,-28513>>, <<64099,64099,1,-28458>>, <<64100,64100,1,-28049>>,
       <<64101,64101,1,-27997>>, <<64102,64102,1,-27312>>, <<64103,64103,1,-27183>>, <<64104,64104,1,-25477>>, <<64105,64105,1,-25194>>,
       <<64106,64106,1,-25135>>, <<64107,64107,1,-39414>>, <<64108,64108,1,84098>>, <<64109,64109,1,-30805>>, <<64112,64112,1,-44106>>,
       <<64113,64113,1,-43196>>, <<64114,64114,1,-43274>>, <<64115,64115,1,-43763>>, <<64116,64116,1,-43311>>, <<64117,64117,1,-43253>>,
       <<64118,64118,1,-42927>>, <<64119,64119,1,-42877>>, <<64120,64120,1,-42203>>, <<64121,64121,1,-42276>>, <<64122,64122,1,-42209>>,
       <<64123,64123,1,-42137>>, <<64124,64124,1,-41506>>, <<64125,64125,1,-41418>>, <<64126,64126,1,-41274>>, <<64127,64127,1,-41259>>,
       <<64128,64128,1,-40990>>, <<64129,64129,1,-40793>>, <<64130,64130,1,-39856>>, <<64131,64131,1,-39850>>, <<64132,64132,1,-39707>>,
       <<64133,64133,1,-39640>>, <<64134,64134,1,-39342>>, <<64135,64135,1,-39225>>, <<64136,64136,1,-39296>>, <<64137,64137,1,-39163>>,
       <<64138,64138,1,-39210>>, <<64139,64139,1,-39065>>, <<64140,64140,1,-39000>>, <<64141,64141,1,-38601>>, <<64142,64142,1,-38514>>,
       <<64143,64143,1,-38461>>, <<64144,64144,1,-38202>>, <<64145,64145,1,-37917>>, <<64146,64146,1,-37755>>, <<64147,64147,1,-37752>>,
       <<64148,64148,1,-37694>>, <<64149,64149,1,-36636>>, <<64150,64150,1,-36572>>, <<64151,64151,1,-36182>>, <<64152,64152,1,-35773>>,
       <<64153,64153,1,-35790>>, <<64154,64154,1,-35704>>, <<64155,64155,1,-35453>>, <<64156,64156,1,-35118>>, <<64157,64157,1,-33526>>,
       <<64158,64158,1,-34921>>, <<64159,64159,1,-34800>>, <<64160,64160,1,-34678>>, <<64161,64161,1,-34352>>, <<64162,64162,1,-34204>>,
       <<64163,64163,1,-34152>>, <<64164,64164,1,-33927>>, <<64165,64165,1,-33926>>, <<64166,64166,1,-33756>>, <<64167,64167,1,-33740>>,
       <<64168,64168,1,-33716>>, <<64169,64169,1,-33631>>, <<64170,64170,1,-33642>>, <<64171,64171,1,-33247>>, <<64172,64172,1,-32763>>,
       <<64173,64173,1,-32493>>, <<64174,64174,1,-32307>>, <<64175,64175,1,-32084>>, <<64176,64176,1,-31932>>, <<64177,64177,1,-31603>>,
       <<64178,64178,1,-31405>>, <<64179,64179,1,-30561>>, <<64180,64180,1,-30405>>, <<64181,64181,1,-29500>>, <<64182,64182,1,-29045>>,
       <<64183,64183,1,-28977>>, <<64184,64184,1,-28962>>, <<64185,64185,1,-28666>>, <<64186,64186,1,-28610>>, <<64187,64187,1,-28656>>,
       <<64188,64188,1,-28603>>, <<64189,64189,1,-28607>>, <<64190,64190,1,-28625>>, <<64191,64191,1,-28550>>, <<64192,64192,1,-28470>>,
       <<64193,64193,1,-28089>>, <<64194,64194,1,-27530>>, <<64195,64195,1,-27217>>, <<64196,64196,1,-26923>>, <<64197,64197,1,-26703>>,
       <<64198,64198,1,-25674>>, <<64199,64199,1,-25572>>, <<64200,64200,1,-25458>>, <<64201,64201,1,-25326>>, <<64202,64202,1,-25291>>,
       <<64203,64203,1,-25280>>, <<64204,64204,1,-25233>>, <<64205,64205,1,-24507>>, <<64206,64206,1,-23346>>, <<64207,64207,1,77179>>,
       <<64208,64208,1,77172>>, <<64209,64209,1,80132>>, <<64210,64210,1,-48949>>, <<64211,64211,1,-47803>>, <<64212,64212,1,-47771>>,
       <<64213,64213,1,87924>>, <<64214,64214,1,90618>>, <<64215,64215,1,99324>>, <<64216,64216,1,-23445>>, <<64217,64217,1,-23371>>,
       <<64288,64288,1,-62782>>, <<64289,64289,1,-62801>>, <<64290,64291,1,-62799>>, <<64292,64294,1,-62793>>, <<64295,64295,1,-62783>>,
       <<64296,64296,1,-62782>>, <<64297,64297,1,-64254>>, <<64336,64336,1,-62687>>, <<64337,64337,1,-62688>>, <<64338,64338,1,-62679>>,
       <<64339,64339,1,-62680>>, <<64340,64340,1,-62681>>, <<64341,64341,1,-62682>>, <<64342,64342,1,-62680>>, <<64343,64343,1,-62681>>,
       <<64344,64344,1,-62682>>, <<64345,64345,1,-62683>>, <<64346,64346,1,-62682>>, <<64347,64347,1,-62683>>, <<64348,64348,1,-62684>>,
       <<64349,64349,1,-62685>>, <<64350,64350,1,-62692>>, <<64351,64351,1,-62693>>, <<64352,64352,1,-62694>>, <<64353,64353,1,-62695>>,
       <<64354,64354,1,-62691>>, <<64355,64355,1,-62692>>, <<64356,64356,1,-62693>>, <<64357,64357,1,-62694>>, <<64358,64358,1,-62701>>,
       <<64359,64359,1,-62702>>, <<64360,64360,1,-62703>>, <<64361,64361,1,-62704>>, <<64362,64362,1,-62662>>, <<64363,64363,1,-62663>>,
       <<64364,64364,1,-62664>>, <<64365,64365,1,-62665>>, <<64366,64366,1,-62664>>, <<64367,64367,1,-62665>>, <<64368,64368,1,-62666>>,
       <<64369,64369,1,-62667>>, <<64370,64370,1,-62702>>, <<64371,64371,1,-62703>>, <<64372,64372,1,-62704>>, <<64373,64373,1,-62705>>,
       <<64374,64374,1,-62707>>, <<64375,64375,1,-62708>>, <<64376,64376,1,-62709>>, <<64377,64377,1,-62710>>, <<64378,64378,1,-62708>>,
       <<64379,64379,1,-62709>>, <<64380,64380,1,-62710>>, <<64381,64382,1,-62711>>, <<64383,64383,1,-62712>>, <<64384,64384,1,-62713>>,
       <<64385,64385,1,-62714>>, <<64386,64386,1,-62709>>, <<64387,64387,1,-62710>>, <<64388,64388,1,-62712>>, <<64389,64389,1,-62713>>,
       <<64390,64390,1,-62712>>, <<64391,64391,1,-62713>>, <<64392,64392,1,-62720>>, <<64393,64393,1,-62721>>, <<64394,64394,1,-62706>>,
       <<64395,64395,1,-62707>>, <<64396,64396,1,-62715>>, <<64397,64397,1,-62716>>, <<64398,64398,1,-62693>>, <<64399,64399,1,-62694>>,
       <<64400,64400,1,-62695>>, <<64401,64401,1,-62696>>, <<64402,64402,1,-62691>>, <<64403,64403,1,-62692>>, <<64404,64404,1,-62693>>,
       <<64405,64405,1,-62694>>, <<64406,64406,1,-62691>>, <<64407,64407,1,-62692>>, <<64408,64408,1,-62693>>, <<64409,64409,1,-62694>>,
       <<64410,64410,1,-62697>>, <<64411,64411,1,-62698>>, <<64412,64412,1,-62699>>, <<64413,64413,1,-62700>>, <<64414,64414,1,-62692>>,
       <<64415,64416,1,-62693>>, <<64417,64417,1,-62694>>, <<64418,64418,1,-62695>>, <<64419,64419,1,-62696>>, <<64420,64420,1,-62692>>,
       <<64421,64422,1,-62693>>, <<64423,64423,1,-62694>>, <<64424,64424,1,-62695>>, <<64425,64425,1,-62696>>, <<64426,64426,1,-62700>>,
       <<64427,64427,1,-62701>>, <<64428,64428,1,-62702>>, <<64429,64429,1,-62703>>, <<64430,64430,1,-62684>>, <<64431,64432,1,-62685>>,
       <<64433,64433,1,-62686>>, <<64467,64467,1,-62758>>, <<64468,64468,1,-62759>>, <<64469,64469,1,-62760>>, <<64470,64470,1,-62761>>,
       <<64471,64471,1,-62736>>, <<64472,64472,1,-62737>>, <<64473,64473,1,-62739>>, <<64474,64474,1,-62740>>, <<64475,64475,1,-62739>>,
       <<64476,64476,1,-62740>>, <<64478,64478,1,-62739>>, <<64479,64479,1,-62740>>, <<64480,64480,1,-62747>>, <<64481,64481,1,-62748>>,
       <<64482,64482,1,-62745>>, <<64483,64483,1,-62746>>, <<64484,64484,1,-62740>>, <<64485,64485,1,-62741>>, <<64486,64486,1,-62742>>,
       <<64487,64487,1,-62743>>, <<64488,64488,1,-62879>>, <<64489,64489,1,-62880>>, <<64508,64508,1,-62768>>, <<64509,64509,1,-62769>>,
       <<64510,64510,1,-62770>>, <<64511,64511,1,-62771>>, <<65040,65040,1,-64996>>, <<65041,65041,1,-52752>>, <<65043,65044,1,-64985>>,
       <<65045,65045,1,-65012>>, <<65046,65046,1,-64983>>, <<65047,65048,1,-52737>>, <<65073,65073,1,-56861>>, <<65074,65074,1,-56863>>,
       <<65075,65075,1,-64980>>, <<65076,65076,1,-64981>>, <<65077,65078,1,-65037>>, <<65079,65079,1,-64956>>, <<65080,65080,1,-64955>>,
       <<65081,65082,1,-52773>>, <<65083,65084,1,-52779>>, <<65085,65086,1,-52787>>, <<65087,65088,1,-52791>>, <<65089,65092,1,-52789>>,
       <<65095,65095,1,-65004>>, <<65096,65096,1,-65003>>, <<65101,65101,1,-65006>>, <<65102,65102,1,-65007>>, <<65103,65103,1,-65008>>,
       <<65104,65104,1,-65060>>, <<65105,65105,1,-52816>>, <<65108,65108,1,-65049>>, <<65109,65109,1,-65051>>, <<65110,65110,1,-65047>>,
       <<65111,65111,1,-65078>>, <<65112,65112,1,-56900>>, <<65113,65114,1,-65073>>, <<65115,65115,1,-64992>>, <<65116,65116,1,-64991>>,
       <<65117,65118,1,-52809>>, <<65119,65119,1,-65084>>, <<65120,65120,1,-65082>>, <<65121,65122,1,-65079>>, <<65123,65123,1,-65078>>,
       <<65124,65124,1,-65064>>, <<65125,65125,1,-65063>>, <<65126,65126,1,-65065>>, <<65128,65128,1,-65036>>, <<65129,65130,1,-65093>>,
       <<65131,65131,1,-65067>>, <<65152,65153,1,-63583>>, <<65154,65155,1,-63584>>, <<65156,65157,1,-63585>>, <<65158,65159,1,-63586>>,
       <<65160,65161,1,-63587>>, <<65162,65162,1,-63588>>, <<65163,65163,1,-63589>>, <<65164,65165,1,-63590>>, <<65166,65167,1,-63591>>,
       <<65168,65168,1,-63592>>, <<65169,65169,1,-63593>>, <<65170,65171,1,-63594>>, <<65172,65173,1,-63595>>, <<65174,65174,1,-63596>>,
       <<65175,65175,1,-63597>>, <<65176,65177,1,-63598>>, <<65178,65178,1,-63599>>, <<65179,65179,1,-63600>>, <<65180,65181,1,-63601>>,
       <<65182,65182,1,-63602>>, <<65183,65183,1,-63603>>, <<65184,65185,1,-63604>>, <<65186,65186,1,-63605>>, <<65187,65187,1,-63606>>,
       <<65188,65189,1,-63607>>, <<65190,65190,1,-63608>>, <<65191,65191,1,-63609>>, <<65192,65193,1,-63610>>, <<65194,65195,1,-63611>>,
       <<65196,65197,1,-63612>>, <<65198,65199,1,-63613>>, <<65200,65201,1,-63614>>, <<65202,65202,1,-63615>>, <<65203,65203,1,-63616>>,
       <<65204,65205,1,-63617>>, <<65206,65206,1,-63618>>, <<65207,65207,1,-63619>>, <<65208,65209,1,-63620>>, <<65210,65210,1,-63621>>,
       <<65211,65211,1,-63622>>, <<65212,65213,1,-63623>>, <<65214,65214,1,-63624>>, <<65215,65215,1,-63625>>, <<65216,65217,1,-63626>>,
       <<65218,65218,1,-63627>>, <<65219,65219,1,-63628>>, <<65220,65221,1,-63629>>, <<65222,65222,1,-63630>>, <<65223,65223,1,-63631>>,
       <<65224,65225,1,-63632>>, <<65226,65226,1,-63633>>, <<65227,65227,1,-63634>>, <<65228,65229,1,-63635>>, <<65230,65230,1,-63636>>,
       <<65231,65231,1,-63637>>, <<65232,65232,1,-63638>>, <<65233,65233,1,-63632>>, <<65234,65234,1,-63633>>, <<65235,65235,1,-63634>>,
       <<65236,65237,1,-63635>>, <<65238,65238,1,-63636>>, <<65239,65239,1,-63637>>, <<65240,65241,1,-63638>>, <<65242,65242,1,-63639>>,
       <<65243,65243,1,-63640>>, <<65244,65245,1,-63641>>, <<65246,65246,1,-63642>>, <<65247,65247,1,-63643>>, <<65248,65249,1,-63644>>,
       <<65250,65250,1,-63645>>, <<65251,65251,1,-63646>>, <<65252,65253,1,-63647>>, <<65254,65254,1,-63648>>, <<65255,65255,1,-63649>>,
       <<65256,65257,1,-63650>>, <<65258,65258,1,-63651>>, <<65259,65259,1,-63652>>, <<65260,65261,1,-63653>>, <<65262,65263,1,-63654>>,
       <<65264,65265,1,-63655>>, <<65266,65266,1,-63656>>, <<65267,65267,1,-63657>>, <<65268,65268,1,-63658>>, <<65281,65312,1,-65248>>,
       <<65313,65338,1,-65216>>, <<65339,65374,1,-65248>>, <<65375,65376,1,-54746>>, <<65377,65377,1,-65331>>, <<65378,65379,1,-53078>>,
       <<65380,65380,1,-53091>>, <<65381,65381,1,-52842>>, <<65382,65382,1,-52852>>, <<65383,65383,1,-52934>>, <<65384,65384,1,-52933>>,
       <<65385,65385,1,-52932>>, <<65386,65386,1,-52931>>, <<65387,65387,1,-52930>>, <<65388,65388,1,-52873>>, <<65389,65389,1,-52872>>,
       <<65390,65390,1,-52871>>, <<65391,65391,1,-52908>>, <<65392,65392,1,-52852>>, <<65393,65393,1,-52943>>, <<65394,65394,1,-52942>>,
       <<65395,65395,1,-52941>>, <<65396,65396,1,-52940>>, <<65397,65398,1,-52939>>, <<65399,65399,1,-52938>>, <<65400,65400,1,-52937>>,
       <<65401,65401,1,-52936>>, <<65402,65402,1,-52935>>, <<65403,65403,1,-52934>>, <<65404,65404,1,-52933>>, <<65405,65405,1,-52932>>,
       <<65406,65406,1,-52931>>, <<65407,65407,1,-52930>>, <<65408,65408,1,-52929>>, <<65409,65409,1,-52928>>, <<65410,65410,1,-52926>>,
       <<65411,65411,1,-52925>>, <<65412,65412,1,-52924>>, <<65413,65418,1,-52923>>, <<65419,65419,1,-52921>>, <<65420,65420,1,-52919>>,
       <<65421,65421,1,-52917>>, <<65422,65422,1,-52915>>, <<65423,65427,1,-52913>>, <<65428,65428,1,-52912>>, <<65429,65429,1,-52911>>,
       <<65430,65435,1,-52910>>, <<65436,65436,1,-52909>>, <<65437,65437,1,-52906>>, <<65438,65439,1,-52997>>, <<65441,65442,1,-61089>>,
       <<65443,65443,1,-60921>>, <<65444,65444,1,-61090>>, <<65445,65446,1,-60921>>, <<65447,65449,1,-61092>>, <<65450,65455,1,-60922>>,
       <<65456,65456,1,-61078>>, <<65457,65459,1,-61099>>, <<65460,65460,1,-61075>>, <<65461,65470,1,-61100>>, <<65474,65479,1,-61025>>,
       <<65482,65487,1,-61027>>, <<65490,65495,1,-61029>>, <<65498,65500,1,-61031>>, <<65504,65505,1,-65342>>, <<65506,65506,1,-65334>>,
       <<65508,65508,1,-65342>>, <<65509,65509,1,-65344>>, <<65510,65510,1,-57149>>, <<65512,65512,1,-56038>>, <<65513,65516,1,-56921>>,
       <<65517,65517,1,-55885>>, <<65518,65518,1,-55843>>, <<66560,66599,1,40>>, <<66736,66771,1,40>>, <<66928,66938,1,39>>,
       <<66940,66954,1,39>>, <<66956,66962,1,39>>, <<66964,66965,1,39>>, <<67457,67458,1,-66737>>, <<67459,67459,1,-67229>>,
       <<67460,67460,1,-66795>>, <<67461,67461,1,-66866>>, <<67463,67463,1,-66788>>, <<67464,67464,1,-23586>>, <<67465,67465,1,-66788>>,
       <<67466,67466,1,-66790>>, <<67467,67468,1,-66869>>, <<67469,67469,1,-59900>>, <<67470,67470,1,-66870>>, <<67471,67471,1,-66865>>,
       <<67472,67472,1,-66791>>, <<67473,67473,1,-66861>>, <<67474,67474,1,-66864>>, <<67475,67475,1,-66867>>, <<67476,67476,1,-66809>>,
       <<67477,67477,1,-67182>>, <<67478,67478,1,-66810>>, <<67479,67479,1,-66864>>, <<67480,67480,1,-66836>>, <<67481,67482,1,-66799>>,
       <<67483,67483,1,-66863>>, <<67484,67484,1,55144>>, <<67485,67485,1,-24591>>, <<67486,67486,1,-66864>>, <<67487,67487,1,55142>>,
       <<67488,67488,1,-66834>>, <<67489,67489,1,55141>>, <<67490,67490,1,-67242>>, <<67491,67492,1,-66861>>, <<67493,67493,1,-67380>>,
       <<67494,67494,1,-66860>>, <<67495,67495,1,55137>>, <<67496,67497,1,-66859>>, <<67498,67498,1,-66858>>, <<67499,67499,1,-66819>>,
       <<67500,67500,1,-66822>>, <<67501,67501,1,-23622>>, <<67502,67502,1,-66823>>, <<67503,67503,1,-66855>>, <<67504,67504,1,-56127>>,
       <<67506,67506,1,-66851>>, <<67507,67508,1,-66834>>, <<67509,67509,1,-66845>>, <<67510,67512,1,-67062>>, <<67513,67513,1,55121>>,
       <<67514,67514,1,55140>>, <<68736,68786,1,64>>, <<71840,71871,1,32>>, <<93760,93791,1,32>>, <<119808,119833,1,-119711>>,
       <<119834,119859,1,-119737>>, <<119860,119885,1,-119763>>, <<119886,119892,1,-119789>>, <<119894,119911,1,-119789>>, <<119912,119937,1,-119815>>,
       <<119938,119963,1,-119841>>, <<119964,119966,2,-119867>>, <<119967,119967,1,-119867>>, <<119970,119970,1,-119867>>, <<119973,119974,1,-119867>>,
       <<119977,119980,1,-119867>>, <<119982,119989,1,-119867>>, <<119990,119993,1,-119893>>, <<119995,119997,2,-119893>>, <<119998,120003,1,-119893>>,
       <<120005,120015,1,-119893>>, <<120016,120041,1,-119919>>, <<120042,120067,1,-119945>>, <<120068,120069,1,-119971>>, <<120071,120074,1,-119971>>,
       <<120077,120084,1,-119971>>, <<120086,120092,1,-119971>>, <<120094,120119,1,-119997>>, <<120120,120121,1,-120023>>, <<120123,120126,1,-120023>>,
       <<120128,120132,1,-120023>>, <<120134,120134,1,-120023>>, <<120138,120144,1,-120023>>, <<120146,120171,1,-120049>>, <<120172,120197,1,-120075>>,
       <<120198,120223,1,-120101>>, <<120224,120249,1,-120127>>, <<120250,120275,1,-120153>>, <<120276,120301,1,-120179>>, <<120302,120327,1,-120205>>,
       <<120328,120353,1,-120231>>, <<120354,120379,1,-120257>>, <<120380,120405,1,-120283>>, <<120406,120431,1,-120309>>, <<120432,120457,1,-120335>>,
       <<120458,120483,1,-120361>>, <<120484,120484,1,-120179>>, <<120485,120485,1,-119918>>, <<120488,120504,1,-119543>>, <<120505,120505,1,-119553>>,
       <<120506,120512,1,-119543>>, <<120513,120513,1,-111802>>, <<120514,120530,1,-119569>>, <<120531,120531,1,-119568>>, <<120532,120538,1,-119569>>,
       <<120539,120539,1,-111833>>, <<120540,120540,1,-119591>>, <<120541,120541,1,-119589>>, <<120542,120542,1,-119588>>, <<120543,120543,1,-119577>>,
       <<120544,120544,1,-119583>>, <<120545,120545,1,-119585>>, <<120546,120562,1,-119601>>, <<120563,120563,1,-119611>>, <<120564,120570,1,-119601>>,
       <<120571,120571,1,-111860>>, <<120572,120588,1,-119627>>, <<120589,120589,1,-119626>>, <<120590,120596,1,-119627>>, <<120597,120597,1,-111891>>,
       <<120598,120598,1,-119649>>, <<120599,120599,1,-119647>>, <<120600,120600,1,-119646>>, <<120601,120601,1,-119635>>, <<120602,120602,1,-119641>>,
       <<120603,120603,1,-119643>>, <<120604,120620,1,-119659>>, <<120621,120621,1,-119669>>, <<120622,120628,1,-119659>>, <<120629,120629,1,-111918>>,
       <<120630,120646,1,-119685>>, <<120647,120647,1,-119684>>, <<120648,120654,1,-119685>>, <<120655,120655,1,-111949>>, <<120656,120656,1,-119707>>,
       <<120657,120657,1,-119705>>, <<120658,120658,1,-119704>>, <<120659,120659,1,-119693>>, <<120660,120660,1,-119699>>, <<120661,120661,1,-119701>>,
       <<120662,120678,1,-119717>>, <<120679,120679,1,-119727>>, <<120680,120686,1,-119717>>, <<120687,120687,1,-111976>>, <<120688,120704,1,-119743>>,
       <<120705,120705,1,-119742>>, <<120706,120712,1,-119743>>, <<120713,120713,1,-112007>>, <<120714,120714,1,-119765>>, <<120715,120715,1,-119763>>,
       <<120716,120716,1,-119762>>, <<120717,120717,1,-119751>>, <<120718,120718,1,-119757>>, <<120719,120719,1,-119759>>, <<120720,120736,1,-119775>>,
       <<120737,120737,1,-119785>>, <<120738,120744,1,-119775>>, <<120745,120745,1,-112034>>, <<120746,120762,1,-119801>>, <<120763,120763,1,-119800>>,
       <<120764,120770,1,-119801>>, <<120771,120771,1,-112065>>, <<120772,120772,1,-119823>>, <<120773,120773,1,-119821>>, <<120774,120774,1,-119820>>,
       <<120775,120775,1,-119809>>, <<120776,120776,1,-119815>>, <<120777,120777,1,-119817>>, <<120778,120778,1,-119789>>, <<120779,120779,1,-119790>>,
       <<120782,120791,1,-120734>>, <<120792,120801,1,-120744>>, <<120802,120811,1,-120754>>, <<120812,120821,1,-120764>>, <<120822,120831,1,-120774>>,
       <<122928,122936,1,-121856>>, <<122937,122939,1,-121855>>, <<122940,122950,1,-121854>>, <<122951,122951,1,-121852>>, <<122952,122953,1,-121851>>,
       <<122954,122954,1,-80321>>, <<122955,122955,1,-121714>>, <<122956,122956,1,-121846>>, <<122957,122957,1,-121845>>, <<122958,122958,1,-121701>>,
       <<122959,122959,1,-121760>>, <<122960,122960,1,-121729>>, <<122961,122969,1,-121889>>, <<122970,122971,1,-121888>>, <<122972,122973,1,-121886>>,
       <<122974,122974,1,-121885>>, <<122975,122980,1,-121884>>, <<122981,122982,1,-121883>>, <<122983,122983,1,-121814>>, <<122984,122984,1,-121874>>,
       <<122985,122985,1,-121876>>, <<122986,122986,1,-121867>>, <<122987,122987,1,-121792>>, <<122988,122988,1,-80411>>, <<122989,122989,1,-121788>>,
       <<125184,125217,1,34>>, <<126464,126465,1,-124889>>, <<126466,126466,1,-124886>>, <<126467,126467,1,-124884>>, <<126469,126469,1,-124861>>,
       <<126470,126470,1,-124884>>, <<126471,126471,1,-124890>>, <<126472,126472,1,-124881>>, <<126473,126473,1,-124863>>, <<126474,126477,1,-124871>>,
       <<126478,126478,1,-124891>>, <<126479,126479,1,-124886>>, <<126480,126480,1,-124879>>, <<126481,126481,1,-124892>>, <<126482,126482,1,-124880>>,
       <<126483,126483,1,-124898>>, <<126484,126484,1,-124896>>, <<126485,126486,1,-124907>>, <<126487,126487,1,-124905>>, <<126488,126488,1,-124904>>,
       <<126489,126489,1,-124899>>, <<126490,126490,1,-124898>>, <<126491,126491,1,-124897>>, <<126492,126492,1,-124846>>, <<126493,126493,1,-124771>>,
       <<126494,126494,1,-124797>>, <<126495,126495,1,-124848>>, <<126497,126497,1,-124921>>, <<126498,126498,1,-124918>>, <<126500,126500,1,-124893>>,
       <<126503,126503,1,-124922>>, <<126505,126505,1,-124895>>, <<126506,126509,1,-124903>>, <<126510,126510,1,-124923>>, <<126511,126511,1,-124918>>,
       <<126512,126512,1,-124911>>, <<126513,126513,1,-124924>>, <<126514,126514,1,-124912>>, <<126516,126516,1,-124928>>, <<126517,126518,1,-124939>>,
       <<126519,126519,1,-124937>>, <<126521,126521,1,-124931>>, <<126523,126523,1,-124929>>, <<126530,126530,1,-124950>>, <<126535,126535,1,-124954>>,
       <<126537,126537,1,-124927>>, <<126539,126541,2,-124935>>, <<126542,126542,1,-124955>>, <<126543,126543,1,-124950>>, <<126545,126545,1,-124956>>,
       <<126546,126546,1,-124944>>, <<126548,126548,1,-124960>>, <<126551,126551,1,-124969>>, <<126553,126553,1,-124963>>, <<126555,126555,1,-124961>>,
       <<126557,126557,1,-124835>>, <<126559,126559,1,-124912>>, <<126561,126561,1,-124985>>, <<126562,126562,1,-124982>>, <<126564,126564,1,-124957>>,
       <<126567,126567,1,-124986>>, <<126568,126568,1,-124977>>, <<126569,126569,1,-124959>>, <<126570,126572,2,-124967>>, <<126573,126573,1,-124967>>,
       <<126574,126574,1,-124987>>, <<126575,126575,1,-124982>>, <<126576,126576,1,-124975>>, <<126577,126577,1,-124988>>, <<126578,126578,1,-124976>>,
       <<126580,126580,1,-124992>>, <<126581,126582,1,-125003>>, <<126583,126583,1,-125001>>, <<126585,126585,1,-124995>>, <<126586,126586,1,-124994>>,
       <<126587,126587,1,-124993>>, <<126588,126588,1,-124942>>, <<126590,126590,1,-124893>>, <<126592,126593,1,-125017>>, <<126594,126594,1,-125014>>,
       <<126595,126595,1,-125012>>, <<126596,126597,1,-124989>>, <<126598,126598,1,-125012>>, <<126599,126599,1,-125018>>, <<126600,126600,1,-125009>>,
       <<126601,126601,1,-124991>>, <<126603,126605,1,-124999>>, <<126606,126606,1,-125019>>, <<126607,126607,1,-125014>>, <<126608,126608,1,-125007>>,
       <<126609,126609,1,-125020>>, <<126610,126610,1,-125008>>, <<126611,126611,1,-125026>>, <<126612,126612,1,-125024>>, <<126613,126614,1,-125035>>,
       <<126615,126615,1,-125033>>, <<126616,126616,1,-125032>>, <<126617,126617,1,-125027>>, <<126618,126618,1,-125026>>, <<126619,126619,1,-125025>>,
       <<126625,126625,1,-125049>>, <<126626,126626,1,-125046>>, <<126627,126627,1,-125044>>, <<126629,126629,1,-125021>>, <<126630,126630,1,-125044>>,
       <<126631,126631,1,-125050>>, <<126632,126632,1,-125041>>, <<126633,126633,1,-125023>>, <<126635,126637,1,-125031>>, <<126638,126638,1,-125051>>,
       <<126639,126639,1,-125046>>, <<126640,126640,1,-125039>>, <<126641,126641,1,-125052>>, <<126642,126642,1,-125040>>, <<126643,126643,1,-125058>>,
       <<126644,126644,1,-125056>>, <<126645,126646,1,-125067>>, <<126647,126647,1,-125065>>, <<126648,126648,1,-125064>>, <<126649,126649,1,-125059>>,
       <<126650,126650,1,-125058>>, <<126651,126651,1,-125057>>, <<127275,127275,1,-127176>>, <<127276,127276,1,-127162>>, <<127280,127305,1,-127183>>,
       <<127490,127490,1,-115021>>, <<127504,127504,1,-102341>>, <<127505,127505,1,-104122>>, <<127506,127506,1,-106054>>, <<127507,127507,1,-115020>>,
       <<127508,127508,1,-107400>>, <<127509,127509,1,-104699>>, <<127510,127510,1,-92211>>, <<127511,127511,1,-104686>>, <<127512,127512,1,-107380>>,
       <<127513,127513,1,-101369>>, <<127514,127514,1,-98553>>, <<127515,127515,1,-101506>>, <<127516,127516,1,-106447>>, <<127517,127517,1,-103057>>,
       <<127518,127518,1,-106641>>, <<127519,127519,1,-101487>>, <<127520,127520,1,-106499>>, <<127521,127521,1,-95455>>, <<127522,127522,1,-97539>>,
       <<127523,127523,1,-91514>>, <<127524,127524,1,-104756>>, <<127525,127525,1,-105964>>, <<127526,127526,1,-99090>>, <<127527,127527,1,-102290>>,
       <<127528,127528,1,-102099>>, <<127529,127529,1,-107561>>, <<127530,127530,1,-107553>>, <<127531,127531,1,-90593>>, <<127532,127532,1,-103494>>,
       <<127533,127533,1,-107520>>, <<127534,127534,1,-106043>>, <<127535,127535,1,-102184>>, <<127536,127536,1,-91328>>, <<127537,127537,1,-102366>>,
       <<127538,127538,1,-96433>>, <<127539,127539,1,-96185>>, <<127540,127540,1,-106028>>, <<127541,127541,1,-99253>>, <<127542,127542,1,-101165>>,
       <<127543,127543,1,-101167>>, <<127544,127544,1,-97541>>, <<127545,127545,1,-106439>>, <<127546,127546,1,-105604>>, <<127547,127547,1,-90350>>,
       <<127568,127568,1,-103097>>, <<127569,127569,1,-106082>>, <<130032,130041,1,-129984>>, <<194560,194560,1,-174531>>, <<194561,194561,1,-174537>>,
       <<194562,194562,1,-174529>>, <<194563,194563,1,-63201>>, <<194564,194564,1,-174244>>, <<194565,194565,1,-174167>>, <<194566,194566,1,-174155>>,
       <<194567,194567,1,-174085>>, <<194568,194568,1,-173966>>, <<194569,194569,1,-173936>>, <<194570,194570,1,-173859>>, <<194571,194571,1,-173884>>,
       <<194572,194572,1,-181102>>, <<194573,194573,1,-61907>>, <<194574,194574,1,-173761>>, <<194575,194575,1,-173755>>, <<194576,194576,1,-173740>>,
       <<194577,194577,1,-173722>>, <<194578,194578,1,-62198>>, <<194579,194579,1,-181082>>, <<194580,194580,1,-173741>>, <<194581,194581,1,-173704>>,
       <<194582,194582,1,-62155>>, <<194583,194583,1,-173696>>, <<194584,194584,1,-173684>>, <<194585,194585,1,-174413>>, <<194586,194586,1,-173678>>,
       <<194587,194587,1,-173670>>, <<194588,194588,1,-26173>>, <<194589,194589,1,-173608>>, <<194590,194590,1,-173595>>, <<194591,194591,1,-181056>>,
       <<194592,194592,1,-173541>>, <<194593,194593,1,-173531>>, <<194594,194594,1,-173488>>, <<194595,194595,1,-173484>>, <<194596,194596,1,-181007>>,
       <<194597,194597,1,-173406>>, <<194598,194598,1,-173405>>, <<194599,194599,1,-173379>>, <<194600,194600,1,-173358>>, <<194601,194602,1,-173348>>,
       <<194603,194603,1,-173332>>, <<194604,194604,1,-173283>>, <<194605,194605,1,-173276>>, <<194606,194606,1,-173268>>, <<194607,194607,1,-173244>>,
       <<194608,194608,1,-173235>>, <<194609,194609,1,-173234>>, <<194610,194610,1,-173235>>, <<194611,194611,1,-173236>>, <<194612,194612,1,-60936>>,
       <<194613,194613,1,-165829>>, <<194614,194614,1,-173164>>, <<194615,194615,1,-173144>>, <<194616,194616,1,-60629>>, <<194617,194617,1,-173134>>,
       <<194618,194618,1,-173129>>, <<194619,194619,1,-173109>>, <<194620,194620,1,-172958>>, <<194621,194621,1,-173061>>, <<194622,194622,1,-173046>>,
       <<194623,194623,1,-173015>>, <<194624,194624,1,-172958>>, <<194625,194625,1,-172875>>, <<194626,194626,1,-172850>>, <<194627,194627,1,-172784>>,
       <<194628,194628,1,-172769>>, <<194629,194629,1,-172737>>, <<194630,194630,1,-172738>>, <<194631,194631,1,-172718>>, <<194632,194632,1,-172701>>,
       <<194633,194633,1,-172694>>, <<194634,194634,1,-172680>>, <<194635,194635,1,-172341>>, <<194636,194636,1,-172614>>, <<194637,194637,1,-172342>>,
       <<194638,194638,1,-172541>>, <<194639,194639,1,-172507>>, <<194640,194640,1,-173641>>, <<194641,194641,1,-171875>>, <<194642,194642,1,-172164>>,
       <<194643,194643,1,-172127>>, <<194644,194644,1,-172103>>, <<194645,194645,1,-172234>>, <<194646,194646,1,-172068>>, <<194647,194647,1,-172070>>,
       <<194648,194648,1,-171948>>, <<194649,194649,1,-58229>>, <<194650,194650,1,-171880>>, <<194651,194651,1,-171876>>, <<194652,194652,1,-171862>>,
       <<194653,194653,1,-171843>>, <<194654,194654,1,-171836>>, <<194655,194655,1,-171773>>, <<194656,194656,1,-57784>>, <<194657,194657,1,-57719>>,
       <<194658,194658,1,-171638>>, <<194659,194659,1,-171592>>, <<194660,194660,1,-171581>>, <<194661,194661,1,-171661>>, <<194662,194662,1,-171520>>,
       <<194663,194663,1,-180601>>, <<194665,194665,1,-171361>>, <<194666,194666,1,-171308>>, <<194667,194667,1,-171309>>, <<194668,194668,1,-56996>>,
       <<194669,194669,1,-171178>>, <<194670,194670,1,-171158>>, <<194671,194671,1,-171144>>, <<194672,194672,1,-171133>>, <<194673,194673,1,-56665>>,
       <<194674,194674,1,-171123>>, <<194675,194675,1,-171117>>, <<194677,194677,1,-171091>>, <<194678,194678,1,-180469>>, <<194679,194679,1,-171031>>,
       <<194680,194680,1,-171018>>, <<194681,194681,1,-170937>>, <<194682,194682,1,-170989>>, <<194683,194683,1,-55959>>, <<194684,194684,1,-170809>>,
       <<194685,194685,1,-55959>>, <<194686,194686,1,-170768>>, <<194687,194687,1,-170772>>, <<194688,194688,1,-170756>>, <<194689,194690,1,-170656>>,
       <<194691,194691,1,-180308>>, <<194692,194692,1,-170631>>, <<194693,194693,1,-170589>>, <<194694,194694,1,-170569>>, <<194695,194695,1,-170526>>,
       <<194696,194696,1,-180262>>, <<194697,194697,1,-55046>>, <<194698,194698,1,-180238>>, <<194699,194699,1,-170459>>, <<194700,194700,1,-170457>>,
       <<194701,194701,1,-170455>>, <<194702,194702,1,-170436>>, <<194703,194703,1,-21757>>, <<194704,194704,1,-170386>>, <<194705,194705,1,-54624>>,
       <<194706,194706,1,-54625>>, <<194707,194707,1,-161426>>, <<194708,194708,1,-170354>>, <<194709,194709,1,-170355>>, <<194710,194710,1,-180175>>,
       <<194711,194711,1,-50655>>, <<194712,194712,1,-38590>>, <<194713,194713,1,-170295>>, <<194714,194714,1,-170287>>, <<194715,194715,1,-180152>>,
       <<194716,194716,1,-170242>>, <<194717,194717,1,-170192>>, <<194718,194718,1,-170183>>, <<194719,194719,1,-170150>>, <<194720,194720,1,-170015>>,
       <<194721,194721,1,-180071>>, <<194722,194722,1,-180102>>, <<194723,194723,1,-169999>>, <<194724,194724,1,-53712>>, <<194725,194725,1,-169950>>,
       <<194726,194726,1,-169822>>, <<194727,194727,1,-169819>>, <<194728,194728,1,-169818>>, <<194729,194729,1,-169821>>, <<194730,194730,1,-169776>>,
       <<194731,194731,1,-169757>>, <<194732,194732,1,-169722>>, <<194733,194733,1,-169737>>, <<194734,194734,1,-169727>>, <<194735,194735,1,-169681>>,
       <<194736,194736,1,-169662>>, <<194737,194737,1,-169659>>, <<194738,194738,1,-169634>>, <<194739,194739,1,-169624>>, <<194740,194740,1,-169559>>,
       <<194741,194741,1,-169476>>, <<194742,194742,1,-169442>>, <<194743,194743,1,-169319>>, <<194744,194744,1,-52652>>, <<194745,194745,1,-169340>>,
       <<194746,194746,1,-169406>>, <<194747,194747,1,-169299>>, <<194748,194748,1,-169273>>, <<194749,194749,1,-169177>>, <<194750,194750,1,-52429>>,
       <<194751,194751,1,-169117>>, <<194752,194752,1,-169211>>, <<194753,194753,1,-169240>>, <<194754,194754,1,-179860>>, <<194755,194755,1,-169050>>,
       <<194756,194756,1,-169030>>, <<194757,194757,1,-169000>>, <<194758,194758,1,-169039>>, <<194759,194759,1,-179803>>, <<194760,194760,1,-168825>>,
       <<194761,194761,1,-168797>>, <<194762,194762,1,-51392>>, <<194763,194763,1,-168680>>, <<194764,194764,1,-168404>>, <<194765,194765,1,-168580>>,
       <<194766,194766,1,-179637>>, <<194767,194767,1,-168510>>, <<194768,194768,1,-179656>>, <<194769,194769,1,-179693>>, <<194770,194770,1,-173888>>,
       <<194771,194771,1,-173886>>, <<194772,194772,1,-168404>>, <<194773,194773,1,-168505>>, <<194774,194774,1,-161833>>, <<194775,194775,1,-177406>>,
       <<194776,194776,1,-168385>>, <<194777,194777,1,-168382>>, <<194778,194778,1,-168377>>, <<194779,194779,1,-168317>>, <<194780,194780,1,-168329>>,
       <<194781,194781,1,-50458>>, <<194782,194782,1,-179605>>, <<194783,194783,1,-168165>>, <<194784,194784,1,-168283>>, <<194785,194785,1,-168079>>,
       <<194786,194786,1,-168029>>, <<194787,194787,1,-50294>>, <<194788,194788,1,-168022>>, <<194789,194789,1,-168134>>, <<194790,194790,1,-167890>>,
       <<194791,194791,1,-179530>>, <<194792,194792,1,-167846>>, <<194793,194793,1,-167750>>, <<194794,194794,1,-167680>>, <<194795,194795,1,-167491>>,
       <<194796,194796,1,-49737>>, <<194797,194797,1,-167442>>, <<194798,194798,1,-179414>>, <<194799,194799,1,-167374>>, <<194800,194800,1,-49225>>,
       <<194801,194801,1,-167325>>, <<194802,194802,1,-179364>>, <<194803,194803,1,-167297>>, <<194804,194804,1,-167253>>, <<194805,194806,1,-167227>>,
       <<194807,194807,1,-48746>>, <<194808,194808,1,-56301>>, <<194809,194809,1,-48639>>, <<194810,194810,1,-167084>>, <<194811,194811,1,-48191>>,
       <<194812,194812,1,-166973>>, <<194813,194813,1,-166960>>, <<194814,194814,1,-167063>>, <<194815,194815,1,-166889>>, <<194816,194816,1,-166850>>,
       <<194817,194817,1,-166794>>, <<194818,194818,1,-166849>>, <<194819,194819,1,-166810>>, <<194820,194820,1,-166796>>, <<194821,194821,1,-166784>>,
       <<194822,194822,1,-48104>>, <<194823,194823,1,-166867>>, <<194824,194824,1,-166617>>, <<194825,194825,1,-166555>>, <<194826,194826,1,-179159>>,
       <<194827,194827,1,-166464>>, <<194828,194828,1,-166469>>, <<194829,194829,1,-47676>>, <<194830,194830,1,-166677>>, <<194831,194831,1,-166305>>,
       <<194832,194832,1,-47538>>, <<194833,194833,1,-47491>>, <<194834,194834,1,-166220>>, <<194835,194835,1,-166106>>, <<194836,194836,1,-166134>>,
       <<194837,194837,1,-166138>>, <<194838,194838,1,-179072>>, <<194839,194839,1,-166093>>, <<194840,194840,1,-166043>>, <<194841,194841,1,-166050>>,
       <<194842,194842,1,-165997>>, <<194843,194843,1,-62454>>, <<194844,194844,1,-165847>>, <<194845,194845,1,-46778>>, <<194846,194846,1,-165762>>,
       <<194848,194848,1,-165624>>, <<194849,194849,1,-165612>>, <<194850,194850,1,-165586>>, <<194851,194851,1,-45851>>, <<194852,194852,1,-165540>>,
       <<194853,194853,1,-165520>>, <<194854,194854,1,-45553>>, <<194855,194855,1,-45331>>, <<194856,194856,1,-165294>>, <<194857,194857,1,-165278>>,
       <<194858,194858,1,-178814>>, <<194859,194859,1,-165254>>, <<194860,194860,1,-178804>>, <<194861,194861,1,-178805>>, <<194862,194862,1,-165095>>,
       <<194863,194863,1,-165075>>, <<194864,194864,1,-165055>>, <<194865,194865,1,-165036>>, <<194866,194866,1,-164968>>, <<194867,194867,1,-178712>>,
       <<194868,194868,1,-164880>>, <<194869,194869,1,-44287>>, <<194870,194870,1,-164856>>, <<194871,194871,1,-44197>>, <<194872,194872,1,-164808>>,
       <<194873,194873,1,-55194>>, <<194874,194874,1,-164650>>, <<194875,194875,1,-43418>>, <<194876,194876,1,-43396>>, <<194877,194877,1,-43257>>,
       <<194878,194878,1,-178498>>, <<194879,194879,1,-178487>>, <<194880,194880,1,-164428>>, <<194881,194881,1,-43086>>, <<194882,194882,1,-43088>>,
       <<194883,194883,1,-43050>>, <<194884,194884,1,-43025>>, <<194885,194886,1,-164391>>, <<194887,194887,1,-164392>>, <<194888,194888,1,-164350>>,
       <<194889,194889,1,-178448>>, <<194890,194890,1,-164287>>, <<194891,194891,1,-178437>>, <<194892,194892,1,-178358>>, <<194893,194893,1,-42288>>,
       <<194894,194894,1,-164096>>, <<194895,194895,1,-164035>>, <<194896,194896,1,-163972>>, <<194897,194897,1,-178286>>, <<194898,194898,1,-41772>>,
       <<194899,194899,1,-163837>>, <<194900,194900,1,-41658>>, <<194901,194901,1,-41616>>, <<194902,194902,1,-163783>>, <<194903,194903,1,-163692>>,
       <<194904,194904,1,-178217>>, <<194905,194905,1,-163609>>, <<194906,194906,1,-163600>>, <<194907,194907,1,-163596>>, <<194908,194908,1,-40928>>,
       <<194909,194909,1,-40630>>, <<194910,194910,1,-40631>>, <<194912,194912,1,-178014>>, <<194913,194913,1,-40374>>, <<194914,194914,1,-163228>>,
       <<194915,194915,1,-163226>>, <<194916,194916,1,-177981>>, <<194917,194917,1,-40165>>, <<194918,194918,1,-162964>>, <<194919,194919,1,-177863>>,
       <<194920,194920,1,-162944>>, <<194921,194921,1,-162950>>, <<194922,194922,1,-162922>>, <<194923,194923,1,-39397>>, <<194924,194924,1,-162825>>,
       <<194925,194925,1,-177772>>, <<194926,194926,1,-162727>>, <<194927,194927,1,-162669>>, <<194928,194928,1,-162603>>, <<194929,194929,1,-177725>>,
       <<194930,194930,1,-38730>>, <<194931,194931,1,-38700>>, <<194932,194932,1,-177691>>, <<194933,194933,1,-38556>>, <<194934,194934,1,-162300>>,
       <<194935,194935,1,-38457>>, <<194936,194936,1,-162275>>, <<194937,194937,1,-162175>>, <<194938,194938,1,-162165>>, <<194939,194939,1,-38049>>,
       <<194940,194940,1,-37977>>, <<194941,194941,1,-162077>>, <<194942,194942,1,-37846>>, <<194943,194943,1,-162063>>, <<194944,194944,1,-50721>>,
       <<194945,194945,1,-177580>>, <<194946,194946,1,-162000>>, <<194947,194947,1,-161920>>, <<194948,194948,1,-177529>>, <<194949,194949,1,-161863>>,
       <<194950,194950,1,-171729>>, <<194951,194951,1,-37344>>, <<194952,194952,1,-37331>>, <<194953,194953,1,-50678>>, <<194954,194954,1,-50670>>,
       <<194955,194955,1,-161674>>, <<194956,194956,1,-161672>>, <<194957,194957,1,-158191>>, <<194958,194958,1,-177443>>, <<194959,194959,1,-161534>>,
       <<194960,194960,1,-161541>>, <<194961,194961,1,-161524>>, <<194962,194962,1,-173791>>, <<194963,194963,1,-161506>>, <<194964,194964,1,-161505>>,
       <<194965,194965,1,-161496>>, <<194966,194966,1,-161456>>, <<194967,194967,1,-36443>>, <<194968,194968,1,-161459>>, <<194969,194969,1,-161404>>,
       <<194970,194970,1,-161335>>, <<194971,194971,1,-161262>>, <<194972,194972,1,-161401>>, <<194973,194973,1,-161248>>, <<194974,194974,1,-161207>>,
       <<194975,194975,1,-161096>>, <<194976,194976,1,-161357>>, <<194977,194977,1,-161239>>, <<194978,194978,1,-161238>>, <<194979,194979,1,-161223>>,
       <<194980,194980,1,-36206>>, <<194981,194981,1,-35898>>, <<194982,194982,1,-36049>>, <<194983,194983,1,-177276>>, <<194984,194984,1,-160951>>,
       <<194985,194985,1,-160950>>, <<194986,194986,1,-160916>>, <<194987,194987,1,-34273>>, <<194988,194988,1,-160840>>, <<194989,194989,1,-35457>>,
       <<194990,194990,1,-177233>>, <<194991,194991,1,-177230>>, <<194992,194992,1,-35327>>, <<194993,194993,1,-35039>>, <<194994,194994,1,-177223>>,
       <<194995,194995,1,-160611>>, <<194996,194996,1,-160600>>, <<194997,194997,1,-160590>>, <<194998,194998,1,-160589>>, <<194999,194999,1,-160526>>,
       <<195000,195000,1,-160560>>, <<195001,195001,1,-160427>>, <<195002,195002,1,-160472>>, <<195003,195003,1,-160322>>, <<195004,195004,1,-160404>>,
       <<195005,195005,1,-160338>>, <<195006,195006,1,-160312>>, <<195008,195008,1,-160223>>, <<195009,195009,1,-160192>>, <<195010,195010,1,-177097>>,
       <<195011,195011,1,-160099>>, <<195012,195012,1,-160097>>, <<195013,195013,1,-33630>>, <<195014,195014,1,-159983>>, <<195015,195015,1,-159977>>,
       <<195016,195016,1,-177043>>, <<195017,195017,1,-159951>>, <<195018,195018,1,-181519>>, <<195019,195019,1,-33053>>, <<195020,195020,1,-32870>>,
       <<195021,195021,1,-176911>>, <<195022,195022,1,-176903>>, <<195023,195023,1,-159535>>, <<195024,195024,1,-159459>>, <<195025,195025,1,-159303>>,
       <<195026,195026,1,-159101>>, <<195027,195027,1,-32043>>, <<195028,195028,1,-159017>>, <<195029,195029,1,-158996>>, <<195030,195030,1,-158907>>,
       <<195031,195031,1,-158816>>, <<195032,195032,1,-31401>>, <<195033,195033,1,-61909>>, <<195034,195034,1,-158735>>, <<195035,195035,1,-158751>>,
       <<195036,195036,1,-158700>>, <<195037,195037,1,-61695>>, <<195038,195038,1,-158474>>, <<195039,195039,1,-158375>>, <<195040,195040,1,-29710>>,
       <<195041,195041,1,-29684>>, <<195042,195042,1,-158030>>, <<195043,195043,1,-157938>>, <<195044,195044,1,-157907>>, <<195045,195045,1,-29367>>,
       <<195046,195046,1,-157899>>, <<195047,195047,1,-157615>>, <<195048,195049,1,-157457>>, <<195050,195050,1,-157550>>, <<195051,195051,1,-157170>>,
       <<195052,195052,1,-157143>>, <<195053,195053,1,-28147>>, <<195054,195054,1,-156771>>, <<195055,195055,1,-176218>>, <<195056,195056,1,-156729>>,
       <<195057,195057,1,-27770>>, <<195058,195058,1,-176140>>, <<195059,195059,1,-156464>>, <<195060,195060,1,-171074>>, <<195061,195061,1,-156370>>,
       <<195062,195062,1,-26801>>, <<195063,195063,1,-26589>>, <<195064,195064,1,-176010>>, <<195065,195065,1,-176003>>, <<195066,195066,1,-156186>>,
       <<195067,195067,1,-26097>>, <<195068,195068,1,-175946>>, <<195069,195069,1,-25959>>, <<195070,195070,1,-156147>>, <<195071,195071,1,-156148>>,
       <<195072,195072,1,-156119>>, <<195073,195073,1,-25675>>, <<195074,195074,1,-155936>>, <<195075,195075,1,-175824>>, <<195076,195076,1,-155867>>,
       <<195077,195077,1,-155742>>, <<195078,195078,1,-155716>>, <<195079,195079,1,-155657>>, <<195080,195080,1,-175674>>, <<195081,195081,1,-24281>>,
       <<195082,195082,1,-155384>>, <<195083,195083,1,-155083>>, <<195084,195084,1,-154895>>, <<195085,195085,1,-175423>>, <<195086,195086,1,-175393>>,
       <<195087,195087,1,-154792>>, <<195088,195088,1,-22850>>, <<195089,195089,1,-175385>>, <<195090,195090,1,-22797>>, <<195091,195091,1,-22533>>,
       <<195092,195092,1,-22403>>, <<195093,195093,1,-154458>>, <<195094,195094,1,-175296>>, <<195095,195095,1,-154398>>, <<195096,195096,1,-154394>>,
       <<195097,195097,1,-154388>>, <<195098,195098,1,-154379>>, <<195099,195099,1,-154373>>, <<195100,195100,1,-154337>>, <<195101,195101,1,-21533>> >>

\* the characters replaced by no or several characters
Uts46Multi ==
    << <<168,<<32,776>>>>, <<175,<<32,772>>>>, <<180,<<32,769>>>>, <<184,<<32,807>>>>,
       <<188,<<49,8260,52>>>>, <<189,<<49,8260,50>>>>, <<190,<<51,8260,52>>>>, <<304,<<105,775>>>>,
       <<306,<<105,106>>>>, <<307,<<105,106>>>>, <<319,<<108,183>>>>, <<320,<<108,183>>>>,
       <<329,<<700,110>>>>, <<452,<<100,382>>>>, <<453,<<100,382>>>>, <<454,<<100,382>>>>,
       <<455,<<108,106>>>>, <<456,<<108,106>>>>, <<457,<<108,106>>>>, <<458,<<110,106>>>>,
       <<459,<<110,106>>>>, <<460,<<110,106>>>>, <<497,<<100,122>>>>, <<498,<<100,122>>>>,
       <<499,<<100,122>>>>, <<728,<<32,774>>>>, <<729,<<32,775>>>>, <<730,<<32,778>>>>,
       <<731,<<32,808>>>>, <<732,<<32,771>>>>, <<733,<<32,779>>>>, <<836,<<776,769>>>>,
       <<890,<<32,953>>>>, <<900,<<32,769>>>>, <<901,<<32,776,769>>>>, <<1415,<<1381,1410>>>>,
       <<1653,<<1575,1652>>>>, <<1654,<<1608,1652>>>>, <<1655,<<1735,1652>>>>, <<1656,<<1610,1652>>>>,
       <<2392,<<2325,2364>>>>, <<2393,<<2326,2364>>>>, <<2394,<<2327,2364>>>>, <<2395,<<2332,2364>>>>,
       <<2396,<<2337,2364>>>>, <<2397,<<2338,2364>>>>, <<2398,<<2347,2364>>>>, <<2399,<<2351,2364>>>>,
       <<2524,<<2465,2492>>>>, <<2525,<<2466,2492>>>>, <<2527,<<2479,2492>>>>, <<2611,<<2610,2620>>>>,
       <<2614,<<2616,2620>>>>, <<2649,<<2582,2620>>>>, <<2650,<<2583,2620>>>>, <<2651,<<2588,2620>>>>,
       <<2654,<<2603,2620>>>>, <<2908,<<2849,2876>>>>, <<2909,<<2850,2876>>>>, <<3635,<<3661,3634>>>>,
       <<3763,<<3789,3762>>>>, <<3804,<<3755,3737>>>>, <<3805,<<3755,3745>>>>, <<3907,<<3906,4023>>>>,
       <<3917,<<3916,4023>>>>, <<3922,<<3921,4023>>>>, <<3927,<<3926,4023>>>>, <<3932,<<3931,4023>>>>,
       <<3945,<<3904,4021>>>>, <<3955,<<3953,3954>>>>, <<3957,<<3953,3956>>>>, <<3958,<<4018,3968>>>>,
       <<3959,<<4018,3953,3968>>>>, <<3960,<<4019,3968>>>>, <<3961,<<4019,3953,3968>>>>, <<3969,<<3953,3968>>>>,
       <<3987,<<3986,4023>>>>, <<3997,<<3996,4023>>>>, <<4002,<<4001,4023>>>>, <<4007,<<4006,4023>>>>,
       <<4012,<<4011,4023>>>>, <<4025,<<3984,4021>>>>, <<7834,<<97,702>>>>, <<7838,<<115,115>>>>,
       <<8064,<<7936,953>>>>, <<8065,<<7937,953>>>>, <<8066,<<7938,953>>>>, <<8067,<<7939,953>>>>,
       <<8068,<<7940,953>>>>, <<8069,<<7941,953>>>>, <<8070,<<7942,953>>>>, <<8071,<<7943,953>>>>,
       <<8072,<<7936,953>>>>, <<8073,<<7937,953>>>>, <<8074,<<7938,953>>>>, <<8075,<<7939,953>>>>,
       <<8076,<<7940,953>>>>, <<8077,<<7941,953>>>>, <<8078,<<7942,953>>>>, <<8079,<<7943,953>>>>,
       <<8080,<<7968,953>>>>, <<8081,<<7969,953>>>>, <<8082,<<7970,953>>>>, <<8083,<<7971,953>>>>,
       <<8084,<<7972,953>>>>, <<8085,<<7973,953>>>>, <<8086,<<7974,953>>>>, <<8087,<<7975,953>>>>,
       <<8088,<<7968,953>>>>, <<8089,<<7969,953>>>>, <<8090,<<7970,953>>>>, <<8091,<<7971,953>>>>,
       <<8092,<<7972,953>>>>, <<8093,<<7973,953>>>>, <<8094,<<7974,953>>>>, <<8095,<<7975,953>>>>,
       <<8096,<<8032,953>>>>, <<8097,<<8033,953>>>>, <<8098,<<8034,953>>>>, <<8099,<<8035,953>>>>,
       <<8100,<<8036,953>>>>, <<8101,<<8037,953>>>>, <<8102,<<8038,953>>>>, <<8103,<<8039,953>>>>,
       <<8104,<<8032,953>>>>, <<8105,<<8033,953>>>>, <<8106,<<8034,953>>>>, <<8107,<<8035,953>>>>,
       <<8108,<<8036,953>>>>, <<8109,<<8037,953>>>>, <<8110,<<8038,953>>>>, <<8111,<<8039,953>>>>,
       <<8114,<<8048,953>>>>, <<8115,<<945,953>>>>, <<8116,<<940,953>>>>, <<8119,<<8118,953>>>>,
       <<8124,<<945,953>>>>, <<8125,<<32,787>>>>, <<8127,<<32,787>>>>, <<8128,<<32,834>>>>,
       <<8129,<<32,776,834>>>>, <<8130,<<8052,953>>>>, <<8131,<<951,953>>>>, <<8132,<<942,953>>>>,
       <<8135,<<8134,953>>>>, <<8140,<<951,953>>>>, <<8141,<<32,787,768>>>>, <<8142,<<32,787,769>>>>,
       <<8143,<<32,787,834>>>>, <<8157,<<32,788,768>>>>, <<8158,<<32,788,769>>>>, <<8159,<<32,788,834>>>>,
       <<8173,<<32,776,768>>>>, <<8174,<<32,776,769>>>>, <<8178,<<8060,953>>>>, <<8179,<<969,953>>>>,
       <<8180,<<974,953>>>>, <<8183,<<8182,953>>>>, <<8188,<<969,953>>>>, <<8189,<<32,769>>>>,
       <<8190,<<32,788>>>>, <<8215,<<32,819>>>>, <<8243,<<8242,8242>>>>, <<8244,<<8242,8242,8242>>>>,
       <<8246,<<8245,8245>>>>, <<8247,<<8245,8245,8245>>>>, <<8252,<<33,33>>>>, <<8254,<<32,773>>>>,
       <<8263,<<63,63>>>>, <<8264,<<63,33>>>>, <<8265,<<33,63>>>>, <<8279,<<8242,8242,8242,8242>>>>,
       <<8360,<<114,115>>>>, <<8448,<<97,47,99>>>>, <<8449,<<97,47,115>>>>, <<8451,<<176,99>>>>,
       <<8453,<<99,47,111>>>>, <<8454,<<99,47,117>>>>, <<8457,<<176,102>>>>, <<8470,<<110,111>>>>,
       <<8480,<<115,109>>>>, <<8481,<<116,101,108>>>>, <<8482,<<116,109>>>>, <<8507,<<102,97,120>>>>,
       <<8528,<<49,8260,55>>>>, <<8529,<<49,8260,57>>>>, <<8530,<<49,8260,49,48>>>>, <<8531,<<49,8260,51>>>>,
       <<8532,<<50,8260,51>>>>, <<8533,<<49,8260,53>>>>, <<8534,<<50,8260,53>>>>, <<8535,<<51,8260,53>>>>,
       <<8536,<<52,8260,53>>>>, <<8537,<<49,8260,54>>>>, <<8538,<<53,8260,54>>>>, <<8539,<<49,8260,56>>>>,
       <<8540,<<51,8260,56>>>>, <<8541,<<53,8260,56>>>>, <<8542,<<55,8260,56>>>>, <<8543,<<49,8260>>>>,
       <<8545,<<105,105>>>>, <<8546,<<105,105,105>>>>, <<8547,<<105,118>>>>, <<8549,<<118,105>>>>,
       <<8550,<<118,105,105>>>>, <<8551,<<118,105,105,105>>>>, <<8552,<<105,120>>>>, <<8554,<<120,105>>>>,
       <<8555,<<120,105,105>>>>, <<8561,<<105,105>>>>, <<8562,<<105,105,105>>>>, <<8563,<<105,118>>>>,
       <<8565,<<118,105>>>>, <<8566,<<118,105,105>>>>, <<8567,<<118,105,105,105>>>>, <<8568,<<105,120>>>>,
       <<8570,<<120,105>>>>, <<8571,<<120,105,105>>>>, <<8585,<<48,8260,51>>>>, <<8748,<<8747,8747>>>>,
       <<8749,<<8747,8747,8747>>>>, <<8751,<<8750,8750>>>>, <<8752,<<8750,8750,8750>>>>, <<9321,<<49,48>>>>,
       <<9322,<<49,49>>>>, <<9323,<<49,50>>>>, <<9324,<<49,51>>>>, <<9325,<<49,52>>>>,
       <<9326,<<49,53>>>>, <<9327,<<49,54>>>>, <<9328,<<49,55>>>>, <<9329,<<49,56>>>>,
       <<9330,<<49,57>>>>, <<9331,<<50,48>>>>, <<9332,<<40,49,41>>>>, <<9333,<<40,50,41>>>>,
       <<9334,<<40,51,41>>>>, <<9335,<<40,52,41>>>>, <<9336,<<40,53,41>>>>, <<9337,<<40,54,41>>>>,
       <<9338,<<40,55,41>>>>, <<9339,<<40,56,41>>>>, <<9340,<<40,57,41>>>>, <<9341,<<40,49,48,41>>>>,
       <<9342,<<40,49,49,41>>>>, <<9343,<<40,49,50,41>>>>, <<9344,<<40,49,51,41>>>>, <<9345,<<40,49,52,41>>>>,
       <<9346,<<40,49,53,41>>>>, <<9347,<<40,49,54,41>>>>, <<9348,<<40,49,55,41>>>>, <<9349,<<40,49,56,41>>>>,
       <<9350,<<40,49,57,41>>>>, <<9351,<<40,50,48,41>>>>, <<9372,<<40,97,41>>>>, <<9373,<<40,98,41>>>>,
       <<9374,<<40,99,41>>>>, <<9375,<<40,100,41>>>>, <<9376,<<40,101,41>>>>, <<9377,<<40,102,41>>>>,
       <<9378,<<40,103,41>>>>, <<9379,<<40,104,41>>>>, <<9380,<<40,105,41>>>>, <<9381,<<40,106,41>>>>,
       <<9382,<<40,107,41>>>>, <<9383,<<40,108,41>>>>, <<9384,<<40,109,41>>>>, <<9385,<<40,110,41>>>>,
       <<9386,<<40,111,41>>>>, <<9387,<<40,112,41>>>>, <<9388,<<40,113,41>>>>, <<9389,<<40,114,41>>>>,
       <<9390,<<40,115,41>>>>, <<9391,<<40,116,41>>>>, <<9392,<<40,117,41>>>>, <<9393,<<40,118,41>>>>,
       <<9394,<<40,119,41>>>>, <<9395,<<40,120,41>>>>, <<9396,<<40,121,41>>>>, <<9397,<<40,122,41>>>>,
       <<10764,<<8747,8747,8747,8747>>>>, <<10868,<<58,58,61>>>>, <<10869,<<61,61>>>>, <<10870,<<61,61,61>>>>,
       <<10972,<<10973,824>>>>, <<12443,<<32,12441>>>>, <<12444,<<32,12442>>>>, <<12447,<<12424,12426>>>>,
       <<12543,<<12467,12488>>>>, <<12800,<<40,4352,41>>>>, <<12801,<<40,4354,41>>>>, <<12802,<<40,4355,41>>>>,
       <<12803,<<40,4357,41>>>>, <<12804,<<40,4358,41>>>>, <<12805,<<40,4359,41>>>>, <<12806,<<40,4361,41>>>>,
       <<12807,<<40,4363,41>>>>, <<12808,<<40,4364,41>>>>, <<12809,<<40,4366,41>>>>, <<12810,<<40,4367,41>>>>,
       <<12811,<<40,4368,41>>>>, <<12812,<<40,4369,41>>>>, <<12813,<<40,4370,41>>>>, <<12814,<<40,44032,41>>>>,
       <<12815,<<40,45208,41>>>>, <<12816,<<40,45796,41>>>>, <<12817,<<40,46972,41>>>>, <<12818,<<40,47560,41>>>>,
       <<12819,<<40,48148,41>>>>, <<12820,<<40,49324,41>>>>, <<12821,<<40,50500,41>>>>, <<12822,<<40,51088,41>>>>,
       <<12823,<<40,52264,41>>>>, <<12824,<<40,52852,41>>>>, <<12825,<<40,53440,41>>>>, <<12826,<<40,54028,41>>>>,
       <<12827,<<40,54616,41>>>>, <<12828,<<40,51452,41>>>>, <<12829,<<40,50724,51204,41>>>>, <<12830,<<40,50724,54980,41>>>>,
       <<12832,<<40,19968,41>>>>, <<12833,<<40,20108,41>>>>, <<12834,<<40,19977,41>>>>, <<12835,<<40,22235,41>>>>,
       <<12836,<<40,20116,41>>>>, <<12837,<<40,20845,41>>>>, <<12838,<<40,19971,41>>>>, <<12839,<<40,20843,41>>>>,
       <<12840,<<40,20061,41>>>>, <<12841,<<40,21313,41>>>>, <<12842,<<40,26376,41>>>>, <<12843,<<40,28779,41>>>>,
       <<12844,<<40,27700,41>>>>, <<12845,<<40,26408,41>>>>, <<12846,<<40,37329,41>>>>, <<12847,<<40,22303,41>>>>,
       <<12848,<<40,26085,41>>>>, <<12849,<<40,26666,41>>>>, <<12850,<<40,26377,41>>>>, <<12851,<<40,31038,41>>>>,
       <<12852,<<40,21517,41>>>>, <<12853,<<40,29305,41>>>>, <<12854,<<40,36001,41>>>>, <<12855,<<40,31069,41>>>>,
       <<12856,<<40,21172,41>>>>, <<12857,<<40,20195,41>>>>, <<12858,<<40,21628,41>>>>, <<12859,<<40,23398,41>>>>,
       <<12860,<<40,30435,41>>>>, <<12861,<<40,20225,41>>>>, <<12862,<<40,36039,41>>>>, <<12863,<<40,21332,41>>>>,
       <<12864,<<40,31085,41>>>>, <<12865,<<40,20241,41>>>>, <<12866,<<40,33258,41>>>>, <<12867,<<40,33267,41>>>>,
       <<12880,<<112,116,101>>>>, <<12881,<<50,49>>>>, <<12882,<<50,50>>>>, <<12883,<<50,51>>>>,
       <<12884,<<50,52>>>>, <<12885,<<50,53>>>>, <<12886,<<50,54>>>>, <<12887,<<50,55>>>>,
       <<12888,<<50,56>>>>, <<12889,<<50,57>>>>, <<12890,<<51,48>>>>, <<12891,<<51,49>>>>,
       <<12892,<<51,50>>>>, <<12893,<<51,51>>>>, <<12894,<<51,52>>>>, <<12895,<<51,53>>>>,
       <<12924,<<52280,44256>>>>, <<12925,<<51452,51032>>>>, <<12977,<<51,54>>>>, <<12978,<<51,55>>>>,
       <<12979,<<51,56>>>>, <<12980,<<51,57>>>>, <<12981,<<52,48>>>>, <<12982,<<52,49>>>>,
       <<12983,<<52,50>>>>, <<12984,<<52,51>>>>, <<12985,<<52,52>>>>, <<12986,<<52,53>>>>,
       <<12987,<<52,54>>>>, <<12988,<<52,55>>>>, <<12989,<<52,56>>>>, <<12990,<<52,57>>>>,
       <<12991,<<53,48>>>>, <<12992,<<49,26376>>>>, <<12993,<<50,26376>>>>, <<12994,<<51,26376>>>>,
       <<12995,<<52,26376>>>>, <<12996,<<53,26376>>>>, <<12997,<<54,26376>>>>, <<12998,<<55,26376>>>>,
       <<12999,<<56,26376>>>>, <<13000,<<57,26376>>>>, <<13001,<<49,48,26376>>>>, <<13002,<<49,49,26376>>>>,
       <<13003,<<49,50,26376>>>>, <<13004,<<104,103>>>>, <<13005,<<101,114,103>>>>, <<13006,<<101,118>>>>,
       <<13007,<<108,116,100>>>>, <<13055,<<20196,21644>>>>, <<13056,<<12450,12497,12540,12488>>>>, <<13057,<<12450,12523,12501,12449>>>>,
       <<13058,<<12450,12531,12506,12450>>>>, <<13059,<<12450,12540,12523>>>>, <<13060,<<12452,12491,12531,12464>>>>, <<13061,<<12452,12531,12481>>>>,
       <<13062,<<12454,12457,12531>>>>, <<13063,<<12456,12473,12463,12540,12489>>>>, <<13064,<<12456,12540,12459,12540>>>>, <<13065,<<12458,12531,12473>>>>,
       <<13066,<<12458,12540,12512>>>>, <<13067,<<12459,12452,12522>>>>, <<13068,<<12459,12521,12483,12488>>>>, <<13069,<<12459,12525,12522,12540>>>>,
       <<13070,<<12460,12525,12531>>>>, <<13071,<<12460,12531,12510>>>>, <<13072,<<12462,12460>>>>, <<13073,<<12462,12491,12540>>>>,
       <<13074,<<12461,12517,12522,12540>>>>, <<13075,<<12462,12523,12480,12540>>>>, <<13076,<<12461,12525>>>>, <<13077,<<12461,12525,12464,12521,12512>>>>,
       <<13078,<<12461,12525,12513,12540,12488,12523>>>>, <<13079,<<12461,12525,12527,12483,12488>>>>, <<13080,<<12464,12521,12512>>>>, <<13081,<<12464,12521,12512,12488,12531>>>>,
       <<13082,<<12463,12523,12476,12452,12525>>>>, <<13083,<<12463,12525,12540,12493>>>>, <<13084,<<12465,12540,12473>>>>, <<13085,<<12467,12523,12490>>>>,
       <<13086,<<12467,12540,12509>>>>, <<13087,<<12469,12452,12463,12523>>>>, <<13088,<<12469,12531,12481,12540,12512>>>>, <<13089,<<12471,12522,12531,12464>>>>,
       <<13090,<<12475,12531,12481>>>>, <<13091,<<12475,12531,12488>>>>, <<13092,<<12480,12540,12473>>>>, <<13093,<<12487,12471>>>>,
       <<13094,<<12489,12523>>>>, <<13095,<<12488,12531>>>>, <<13096,<<12490,12494>>>>, <<13097,<<12494,12483,12488>>>>,
       <<13098,<<12495,12452,12484>>>>, <<13099,<<12497,12540,12475,12531,12488>>>>, <<13100,<<12497,12540,12484>>>>, <<13101,<<12496,12540,12524,12523>>>>,
       <<13102,<<12500,12450,12473,12488,12523>>>>, <<13103,<<12500,12463,12523>>>>, <<13104,<<12500,12467>>>>, <<13105,<<12499,12523>>>>,
       <<13106,<<12501,12449,12521,12483,12489>>>>, <<13107,<<12501,12451,12540,12488>>>>, <<13108,<<12502,12483,12471,12455,12523>>>>, <<13109,<<12501,12521,12531>>>>,
       <<13110,<<12504,12463,12479,12540,12523>>>>, <<13111,<<12506,12477>>>>, <<13112,<<12506,12491,12498>>>>, <<13113,<<12504,12523,12484>>>>,
       <<13114,<<12506,12531,12473>>>>, <<13115,<<12506,12540,12472>>>>, <<13116,<<12505,12540,12479>>>>, <<13117,<<12509,12452,12531,12488>>>>,
       <<13118,<<12508,12523,12488>>>>, <<13119,<<12507,12531>>>>, <<13120,<<12509,12531,12489>>>>, <<13121,<<12507,12540,12523>>>>,
       <<13122,<<12507,12540,12531>>>>, <<13123,<<12510,12452,12463,12525>>>>, <<13124,<<12510,12452,12523>>>>, <<13125,<<12510,12483,12495>>>>,
       <<13126,<<12510,12523,12463>>>>, <<13127,<<12510,12531,12471,12519,12531>>>>, <<13128,<<12511,12463,12525,12531>>>>, <<13129,<<12511,12522>>>>,
       <<13130,<<12511,12522,12496,12540,12523>>>>, <<13131,<<12513,12460>>>>, <<13132,<<12513,12460,12488,12531>>>>, <<13133,<<12513,12540,12488,12523>>>>,
       <<13134,<<12516,12540,12489>>>>, <<13135,<<12516,12540,12523>>>>, <<13136,<<12518,12450,12531>>>>, <<13137,<<12522,12483,12488,12523>>>>,
       <<13138,<<12522,12521>>>>, <<13139,<<12523,12500,12540>>>>, <<13140,<<12523,12540,12502,12523>>>>, <<13141,<<12524,12512>>>>,
       <<13142,<<12524,12531,12488,12466,12531>>>>, <<13143,<<12527,12483,12488>>>>, <<13144,<<48,28857>>>>, <<13145,<<49,28857>>>>,
       <<13146,<<50,28857>>>>, <<13147,<<51,28857>>>>, <<13148,<<52,28857>>>>, <<13149,<<53,28857>>>>,
       <<13150,<<54,28857>>>>, <<13151,<<55,28857>>>>, <<13152,<<56,28857>>>>, <<13153,<<57,28857>>>>,
       <<13154,<<49,48,28857>>>>, <<13155,<<49,49,28857>>>>, <<13156,<<49,50,28857>>>>, <<13157,<<49,51,28857>>>>,
       <<13158,<<49,52,28857>>>>, <<13159,<<49,53,28857>>>>, <<13160,<<49,54,28857>>>>, <<13161,<<49,55,28857>>>>,
       <<13162,<<49,56,28857>>>>, <<13163,<<49,57,28857>>>>, <<13164,<<50,48,28857>>>>, <<13165,<<50,49,28857>>>>,
       <<13166,<<50,50,28857>>>>, <<13167,<<50,51,28857>>>>, <<13168,<<50,52,28857>>>>, <<13169,<<104,112,97>>>>,
       <<13170,<<100,97>>>>, <<13171,<<97,117>>>>, <<13172,<<98,97,114>>>>, <<13173,<<111,118>>>>,
       <<13174,<<112,99>>>>, <<13175,<<100,109>>>>, <<13176,<<100,109,50>>>>, <<13177,<<100,109,51>>>>,
       <<13178,<<105,117>>>>, <<13179,<<24179,25104>>>>, <<13180,<<26157,21644>>>>, <<13181,<<22823,27491>>>>,
       <<13182,<<26126,27835>>>>, <<13183,<<26666,24335,20250,31038>>>>, <<13184,<<112,97>>>>, <<13185,<<110,97>>>>,
       <<13186,<<956,97>>>>, <<13187,<<109,97>>>>, <<13188,<<107,97>>>>, <<13189,<<107,98>>>>,
       <<13190,<<109,98>>>>, <<13191,<<103,98>>>>, <<13192,<<99,97,108>>>>, <<13193,<<107,99,97,108>>>>,
       <<13194,<<112,102>>>>, <<13195,<<110,102>>>>, <<13196,<<956,102>>>>, <<13197,<<956,103>>>>,
       <<13198,<<109,103>>>>, <<13199,<<107,103>>>>, <<13200,<<104,122>>>>, <<13201,<<107,104,122>>>>,
       <<13202,<<109,104,122>>>>, <<13203,<<103,104,122>>>>, <<13204,<<116,104,122>>>>, <<13205,<<956,108>>>>,
       <<13206,<<109,108>>>>, <<13207,<<100,108>>>>, <<13208,<<107,108>>>>, <<13209,<<102,109>>>>,
       <<13210,<<110,109>>>>, <<13211,<<956,109>>>>, <<13212,<<109,109>>>>, <<13213,<<99,109>>>>,
       <<13214,<<107,109>>>>, <<13215,<<109,109,50>>>>, <<13216,<<99,109,50>>>>, <<13217,<<109,50>>>>,
       <<13218,<<107,109,50>>>>, <<13219,<<109,109,51>>>>, <<13220,<<99,109,51>>>>, <<13221,<<109,51>>>>,
       <<13222,<<107,109,51>>>>, <<13223,<<109,8725,115>>>>, <<13224,<<109,8725,115,50>>>>, <<13225,<<112,97>>>>,
       <<13226,<<107,112,97>>>>, <<13227,<<109,112,97>>>>, <<13228,<<103,112,97>>>>, <<13229,<<114,97,100>>>>,
       <<13230,<<114,97,100,8725,115>>>>, <<13231,<<114,97,100,8725,115,50>>>>, <<13232,<<112,115>>>>, <<13233,<<110,115>>>>,
       <<13234,<<956,115>>>>, <<13235,<<109,115>>>>, <<13236,<<112,118>>>>, <<13237,<<110,118>>>>,
       <<13238,<<956,118>>>>, <<13239,<<109,118>>>>, <<13240,<<107,118>>>>, <<13241,<<109,118>>>>,
       <<13242,<<112,119>>>>, <<13243,<<110,119>>>>, <<13244,<<956,119>>>>, <<13245,<<109,119>>>>,
       <<13246,<<107,119>>>>, <<13247,<<109,119>>>>, <<13248,<<107,969>>>>, <<13249,<<109,969>>>>,
       <<13251,<<98,113>>>>, <<13252,<<99,99>>>>, <<13253,<<99,100>>>>, <<13254,<<99,8725,107,103>>>>,
       <<13256,<<100,98>>>>, <<13257,<<103,121>>>>, <<13258,<<104,97>>>>, <<13259,<<104,112>>>>,
       <<13260,<<105,110>>>>, <<13261,<<107,107>>>>, <<13262,<<107,109>>>>, <<13263,<<107,116>>>>,
       <<13264,<<108,109>>>>, <<13265,<<108,110>>>>, <<13266,<<108,111,103>>>>, <<13267,<<108,120>>>>,
       <<13268,<<109,98>>>>, <<13269,<<109,105,108>>>>, <<13270,<<109,111,108>>>>, <<13271,<<112,104>>>>,
       <<13273,<<112,112,109>>>>, <<13274,<<112,114>>>>, <<13275,<<115,114>>>>, <<13276,<<115,118>>>>,
       <<13277,<<119,98>>>>, <<13278,<<118,8725,109>>>>, <<13279,<<97,8725,109>>>>, <<13280,<<49,26085>>>>,
       <<13281,<<50,26085>>>>, <<13282,<<51,26085>>>>, <<13283,<<52,26085>>>>, <<13284,<<53,26085>>>>,
       <<13285,<<54,26085>>>>, <<13286,<<55,26085>>>>, <<13287,<<56,26085>>>>, <<13288,<<57,26085>>>>,
       <<13289,<<49,48,26085>>>>, <<13290,<<49,49,26085>>>>, <<13291,<<49,50,26085>>>>, <<13292,<<49,51,26085>>>>,
       <<13293,<<49,52,26085>>>>, <<13294,<<49,53,26085>>>>, <<13295,<<49,54,26085>>>>, <<13296,<<49,55,26085>>>>,
       <<13297,<<49,56,26085>>>>, <<13298,<<49,57,26085>>>>, <<13299,<<50,48,26085>>>>, <<13300,<<50,49,26085>>>>,
       <<13301,<<50,50,26085>>>>, <<13302,<<50,51,26085>>>>, <<13303,<<50,52,26085>>>>, <<13304,<<50,53,26085>>>>,
       <<13305,<<50,54,26085>>>>, <<13306,<<50,55,26085>>>>, <<13307,<<50,56,26085>>>>, <<13308,<<50,57,26085>>>>,
       <<13309,<<51,48,26085>>>>, <<13310,<<51,49,26085>>>>, <<13311,<<103,97,108>>>>, <<64256,<<102,102>>>>,
       <<64257,<<102,105>>>>, <<64258,<<102,108>>>>, <<64259,<<102,102,105>>>>, <<64260,<<102,102,108>>>>,
       <<64261,<<115,116>>>>, <<64262,<<115,116>>>>, <<64275,<<1396,1398>>>>, <<64276,<<1396,1381>>>>,
       <<64277,<<1396,1387>>>>, <<64278,<<1406,1398>>>>, <<64279,<<1396,1389>>>>, <<64285,<<1497,1460>>>>,
       <<64287,<<1522,1463>>>>, <<64298,<<1513,1473>>>>, <<64299,<<1513,1474>>>>, <<64300,<<1513,1468,1473>>>>,
       <<64301,<<1513,1468,1474>>>>, <<64302,<<1488,1463>>>>, <<64303,<<1488,1464>>>>, <<64304,<<1488,1468>>>>,
       <<64305,<<1489,1468>>>>, <<64306,<<1490,1468>>>>, <<64307,<<1491,1468>>>>, <<64308,<<1492,1468>>>>,
       <<64309,<<1493,1468>>>>, <<64310,<<1494,1468>>>>, <<64312,<<1496,1468>>>>, <<64313,<<1497,1468>>>>,
       <<64314,<<1498,1468>>>>, <<64315,<<1499,1468>>>>, <<64316,<<1500,1468>>>>, <<64318,<<1502,1468>>>>,
       <<64320,<<1504,1468>>>>, <<64321,<<1505,1468>>>>, <<64323,<<1507,1468>>>>, <<64324,<<1508,1468>>>>,
       <<64326,<<1510,1468>>>>, <<64327,<<1511,1468>>>>, <<64328,<<1512,1468>>>>, <<64329,<<1513,1468>>>>,
       <<64330,<<1514,1468>>>>, <<64331,<<1493,1465>>>>, <<64332,<<1489,1471>>>>, <<64333,<<1499,1471>>>>,
       <<64334,<<1508,1471>>>>, <<64335,<<1488,1500>>>>, <<64477,<<1735,1652>>>>, <<64490,<<1574,1575>>>>,
       <<64491,<<1574,1575>>>>, <<64492,<<1574,1749>>>>, <<64493,<<1574,1749>>>>, <<64494,<<1574,1608>>>>,
       <<64495,<<1574,1608>>>>, <<64496,<<1574,1735>>>>, <<64497,<<1574,1735>>>>, <<64498,<<1574,1734>>>>,
       <<64499,<<1574,1734>>>>, <<64500,<<1574,1736>>>>, <<64501,<<1574,1736>>>>, <<64502,<<1574,1744>>>>,
       <<64503,<<1574,1744>>>>, <<64504,<<1574,1744>>>>, <<64505,<<1574,1609>>>>, <<64506,<<1574,1609>>>>,
       <<64507,<<1574,1609>>>>, <<64512,<<1574,1580>>>>, <<64513,<<1574,1581>>>>, <<64514,<<1574,1605>>>>,
       <<64515,<<1574,1609>>>>, <<64516,<<1574,1610>>>>, <<64517,<<1576,1580>>>>, <<64518,<<1576,1581>>>>,
       <<64519,<<1576,1582>>>>, <<64520,<<1576,1605>>>>, <<64521,<<1576,1609>>>>, <<64522,<<1576,1610>>>>,
       <<64523,<<1578,1580>>>>, <<64524,<<1578,1581>>>>, <<64525,<<1578,1582>>>>, <<64526,<<1578,1605>>>>,
       <<64527,<<1578,1609>>>>, <<64528,<<1578,1610>>>>, <<64529,<<1579,1580>>>>, <<64530,<<1579,1605>>>>,
       <<64531,<<1579,1609>>>>, <<64532,<<1579,1610>>>>, <<64533,<<1580,1581>>>>, <<64534,<<1580,1605>>>>,
       <<64535,<<1581,1580>>>>, <<64536,<<1581,1605>>>>, <<64537,<<1582,1580>>>>, <<64538,<<1582,1581>>>>,
       <<64539,<<1582,1605>>>>, <<64540,<<1587,1580>>>>, <<64541,<<1587,1581>>>>, <<64542,<<1587,1582>>>>,
       <<64543,<<1587,1605>>>>, <<64544,<<1589,1581>>>>, <<64545,<<1589,1605>>>>, <<64546,<<1590,1580>>>>,
       <<64547,<<1590,1581>>>>, <<64548,<<1590,1582>>>>, <<64549,<<1590,1605>>>>, <<64550,<<1591,1581>>>>,
       <<64551,<<1591,1605>>>>, <<64552,<<1592,1605>>>>, <<64553,<<1593,1580>>>>, <<64554,<<1593,1605>>>>,
       <<64555,<<1594,1580>>>>, <<64556,<<1594,1605>>>>, <<64557,<<1601,1580>>>>, <<64558,<<1601,1581>>>>,
       <<64559,<<1601,1582>>>>, <<64560,<<1601,1605>>>>, <<64561,<<1601,1609>>>>, <<64562,<<1601,1610>>>>,
       <<64563,<<1602,1581>>>>, <<64564,<<1602,1605>>>>, <<64565,<<1602,1609>>>>, <<64566,<<1602,1610>>>>,
       <<64567,<<1603,1575>>>>, <<64568,<<1603,1580>>>>, <<64569,<<1603,1581>>>>, <<64570,<<1603,1582>>>>,
       <<64571,<<1603,1604>>>>, <<64572,<<1603,1605>>>>, <<64573,<<1603,1609>>>>, <<64574,<<1603,1610>>>>,
       <<64575,<<1604,1580>>>>, <<64576,<<1604,1581>>>>, <<64577,<<1604,1582>>>>, <<64578,<<1604,1605>>>>,
       <<64579,<<1604,1609>>>>, <<64580,<<1604,1610>>>>, <<64581,<<1605,1580>>>>, <<64582,<<1605,1581>>>>,
       <<64583,<<1605,1582>>>>, <<64584,<<1605,1605>>>>, <<64585,<<1605,1609>>>>, <<64586,<<1605,1610>>>>,
       <<64587,<<1606,1580>>>>, <<64588,<<1606,1581>>>>, <<64589,<<1606,1582>>>>, <<64590,<<1606,1605>>>>,
       <<64591,<<1606,1609>>>>, <<64592,<<1606,1610>>>>, <<64593,<<1607,1580>>>>, <<64594,<<1607,1605>>>>,
       <<64595,<<1607,1609>>>>, <<64596,<<1607,1610>>>>, <<64597,<<1610,1580>>>>, <<64598,<<1610,1581>>>>,
       <<64599,<<1610,1582>>>>, <<64600,<<1610,1605>>>>, <<64601,<<1610,1609>>>>, <<64602,<<1610,1610>>>>,
       <<64603,<<1584,1648>>>>, <<64604,<<1585,1648>>>>, <<64605,<<1609,1648>>>>, <<64606,<<32,1612,1617>>>>,
       <<64607,<<32,1613,1617>>>>, <<64608,<<32,1614,1617>>>>, <<64609,<<32,1615,1617>>>>, <<64610,<<32,1616,1617>>>>,
       <<64611,<<32,1617,1648>>>>, <<64612,<<1574,1585>>>>, <<64613,<<1574,1586>>>>, <<64614,<<1574,1605>>>>,
       <<64615,<<1574,1606>>>>, <<64616,<<1574,1609>>>>, <<64617,<<1574,1610>>>>, <<64618,<<1576,1585>>>>,
       <<64619,<<1576,1586>>>>, <<64620,<<1576,1605>>>>, <<64621,<<1576,1606>>>>, <<64622,<<1576,1609>>>>,
       <<64623,<<1576,1610>>>>, <<64624,<<1578,1585>>>>, <<64625,<<1578,1586>>>>, <<64626,<<1578,1605>>>>,
       <<64627,<<1578,1606>>>>, <<64628,<<1578,1609>>>>, <<64629,<<1578,1610>>>>, <<64630,<<1579,1585>>>>,
       <<64631,<<1579,1586>>>>, <<64632,<<1579,1605>>>>, <<64633,<<1579,1606>>>>, <<64634,<<1579,1609>>>>,
       <<64635,<<1579,1610>>>>, <<64636,<<1601,1609>>>>, <<64637,<<1601,1610>>>>, <<64638,<<1602,1609>>>>,
       <<64639,<<1602,1610>>>>, <<64640,<<1603,1575>>>>, <<64641,<<1603,1604>>>>, <<64642,<<1603,1605>>>>,
       <<64643,<<1603,1609>>>>, <<64644,<<1603,1610>>>>, <<64645,<<1604,1605>>>>, <<64646,<<1604,1609>>>>,
       <<64647,<<1604,1610>>>>, <<64648,<<1605,1575>>>>, <<64649,<<1605,1605>>>>, <<64650,<<1606,1585>>>>,
       <<64651,<<1606,1586>>>>, <<64652,<<1606,1605>>>>, <<64653,<<1606,1606>>>>, <<64654,<<1606,1609>>>>,
       <<64655,<<1606,1610>>>>, <<64656,<<1609,1648>>>>, <<64657,<<1610,1585>>>>, <<64658,<<1610,1586>>>>,
       <<64659,<<1610,1605>>>>, <<64660,<<1610,1606>>>>, <<64661,<<1610,1609>>>>, <<64662,<<1610,1610>>>>,
       <<64663,<<1574,1580>>>>, <<64664,<<1574,1581>>>>, <<64665,<<1574,1582>>>>, <<64666,<<1574,1605>>>>,
       <<64667,<<1574,1607>>>>, <<64668,<<1576,1580>>>>, <<64669,<<1576,1581>>>>, <<64670,<<1576,1582>>>>,
       <<64671,<<1576,1605>>>>, <<64672,<<1576,1607>>>>, <<64673,<<1578,1580>>>>, <<64674,<<1578,1581>>>>,
       <<64675,<<1578,1582>>>>, <<64676,<<1578,1605>>>>, <<64677,<<1578,1607>>>>, <<64678,<<1579,1605>>>>,
       <<64679,<<1580,1581>>>>, <<64680,<<1580,1605>>>>, <<64681,<<1581,1580>>>>, <<64682,<<1581,1605>>>>,
       <<64683,<<1582,1580>>>>, <<64684,<<1582,1605>>>>, <<64685,<<1587,1580>>>>, <<64686,<<1587,1581>>>>,
       <<64687,<<1587,1582>>>>, <<64688,<<1587,1605>>>>, <<64689,<<1589,1581>>>>, <<64690,<<1589,1582>>>>,
       <<64691,<<1589,1605>>>>, <<64692,<<1590,1580>>>>, <<64693,<<1590,1581>>>>, <<64694,<<1590,1582>>>>,
       <<64695,<<1590,1605>>>>, <<64696,<<1591,1581>>>>, <<64697,<<1592,1605>>>>, <<64698,<<1593,1580>>>>,
       <<64699,<<1593,1605>>>>, <<64700,<<1594,1580>>>>, <<64701,<<1594,1605>>>>, <<64702,<<1601,1580>>>>,
       <<64703,<<1601,1581>>>>, <<64704,<<1601,1582>>>>, <<64705,<<1601,1605>>>>, <<64706,<<1602,1581>>>>,
       <<64707,<<1602,1605>>>>, <<64708,<<1603,1580>>>>, <<64709,<<1603,1581>>>>, <<64710,<<1603,1582>>>>,
       <<64711,<<1603,1604>>>>, <<64712,<<1603,1605>>>>, <<64713,<<1604,1580>>>>, <<64714,<<1604,1581>>>>,
       <<64715,<<1604,1582>>>>, <<64716,<<1604,1605>>>>, <<64717,<<1604,1607>>>>, <<64718,<<1605,1580>>>>,
       <<64719,<<1605,1581>>>>, <<64720,<<1605,1582>>>>, <<64721,<<1605,1605>>>>, <<64722,<<1606,1580>>>>,
       <<64723,<<1606,1581>>>>, <<64724,<<1606,1582>>>>, <<64725,<<1606,1605>>>>, <<64726,<<1606,1607>>>>,
       <<64727,<<1607,1580>>>>, <<64728,<<1607,1605>>>>, <<64729,<<1607,1648>>>>, <<64730,<<1610,1580>>>>,
       <<64731,<<1610,1581>>>>, <<64732,<<1610,1582>>>>, <<64733,<<1610,1605>>>>, <<64734,<<1610,1607>>>>,
       <<64735,<<1574,1605>>>>, <<64736,<<1574,1607>>>>, <<64737,<<1576,1605>>>>, <<64738,<<1576,1607>>>>,
       <<64739,<<1578,1605>>>>, <<64740,<<1578,1607>>>>, <<64741,<<1579,1605>>>>, <<64742,<<1579,1607>>>>,
       <<64743,<<1587,1605>>>>, <<64744,<<1587,1607>>>>, <<64745,<<1588,1605>>>>, <<64746,<<1588,1607>>>>,
       <<64747,<<1603,1604>>>>, <<64748,<<1603,1605>>>>, <<64749,<<1604,1605>>>>, <<64750,<<1606,1605>>>>,
       <<64751,<<1606,1607>>>>, <<64752,<<1610,1605>>>>, <<64753,<<1610,1607>>>>, <<64754,<<1600,1614,1617>>>>,
       <<64755,<<1600,1615,1617>>>>, <<64756,<<1600,1616,1617>>>>, <<64757,<<1591,1609>>>>, <<64758,<<1591,1610>>>>,
       <<64759,<<1593,1609>>>>, <<64760,<<1593,1610>>>>, <<64761,<<1594,1609>>>>, <<64762,<<1594,1610>>>>,
       <<64763,<<1587,1609>>>>, <<64764,<<1587,1610>>>>, <<64765,<<1588,1609>>>>, <<64766,<<1588,1610>>>>,
       <<64767,<<1581,1609>>>>, <<64768,<<1581,1610>>>>, <<64769,<<1580,1609>>>>, <<64770,<<1580,1610>>>>,
       <<64771,<<1582,1609>>>>, <<64772,<<1582,1610>>>>, <<64773,<<1589,1609>>>>, <<64774,<<1589,1610>>>>,
       <<64775,<<1590,1609>>>>, <<64776,<<1590,1610>>>>, <<64777,<<1588,1580>>>>, <<64778,<<1588,1581>>>>,
       <<64779,<<1588,1582>>>>, <<64780,<<1588,1605>>>>, <<64781,<<1588,1585>>>>, <<64782,<<1587,1585>>>>,
       <<64783,<<1589,1585>>>>, <<64784,<<1590,1585>>>>, <<64785,<<1591,1609>>>>, <<64786,<<1591,1610>>>>,
       <<64787,<<1593,1609>>>>, <<64788,<<1593,1610>>>>, <<64789,<<1594,1609>>>>, <<64790,<<1594,1610>>>>,
       <<64791,<<1587,1609>>>>, <<64792,<<1587,1610>>>>, <<64793,<<1588,1609>>>>, <<64794,<<1588,1610>>>>,
       <<64795,<<1581,1609>>>>, <<64796,<<1581,1610>>>>, <<64797,<<1580,1609>>>>, <<64798,<<1580,1610>>>>,
       <<64799,<<1582,1609>>>>, <<64800,<<1582,1610>>>>, <<64801,<<1589,1609>>>>, <<64802,<<1589,1610>>>>,
       <<64803,<<1590,1609>>>>, <<64804,<<1590,1610>>>>, <<64805,<<1588,1580>>>>, <<64806,<<1588,1581>>>>,
       <<64807,<<1588,1582>>>>, <<64808,<<1588,1605>>>>, <<64809,<<1588,1585>>>>, <<64810,<<1587,1585>>>>,
       <<64811,<<1589,1585>>>>, <<64812,<<1590,1585>>>>, <<64813,<<1588,1580>>>>, <<64814,<<1588,1581>>>>,
       <<64815,<<1588,1582>>>>, <<64816,<<1588,1605>>>>, <<64817,<<1587,1607>>>>, <<64818,<<1588,1607>>>>,
       <<64819,<<1591,1605>>>>, <<64820,<<1587,1580>>>>, <<64821,<<1587,1581>>>>, <<64822,<<1587,1582>>>>,
       <<64823,<<1588,1580>>>>, <<64824,<<1588,1581>>>>, <<64825,<<1588,1582>>>>, <<64826,<<1591,1605>>>>,
       <<64827,<<1592,1605>>>>, <<64828,<<1575,1611>>>>, <<64829,<<1575,1611>>>>, <<64848,<<1578,1580,1605>>>>,
       <<64849,<<1578,1581,1580>>>>, <<64850,<<1578,1581,1580>>>>, <<64851,<<1578,1581,1605>>>>, <<64852,<<1578,1582,1605>>>>,
       <<64853,<<1578,1605,1580>>>>, <<64854,<<1578,1605,1581>>>>, <<64855,<<1578,1605,1582>>>>, <<64856,<<1580,1605,1581>>>>,
       <<64857,<<1580,1605,1581>>>>, <<64858,<<1581,1605,1610>>>>, <<64859,<<1581,1605,1609>>>>, <<64860,<<1587,1581,1580>>>>,
       <<64861,<<1587,1580,1581>>>>, <<64862,<<1587,1580,1609>>>>, <<64863,<<1587,1605,1581>>>>, <<64864,<<1587,1605,1581>>>>,
       <<64865,<<1587,1605,1580>>>>, <<64866,<<1587,1605,1605>>>>, <<64867,<<1587,1605,1605>>>>, <<64868,<<1589,1581,1581>>>>,
       <<64869,<<1589,1581,1581>>>>, <<64870,<<1589,1605,1605>>>>, <<64871,<<1588,1581,1605>>>>, <<64872,<<1588,1581,1605>>>>,
       <<64873,<<1588,1580,1610>>>>, <<64874,<<1588,1605,1582>>>>, <<64875,<<1588,1605,1582>>>>, <<64876,<<1588,1605,1605>>>>,
       <<64877,<<1588,1605,1605>>>>, <<64878,<<1590,1581,1609>>>>, <<64879,<<1590,1582,1605>>>>, <<64880,<<1590,1582,1605>>>>,
       <<64881,<<1591,1605,1581>>>>, <<64882,<<1591,1605,1581>>>>, <<64883,<<1591,1605,1605>>>>, <<64884,<<1591,1605,1610>>>>,
       <<64885,<<1593,1580,1605>>>>, <<64886,<<1593,1605,1605>>>>, <<64887,<<1593,1605,1605>>>>, <<64888,<<1593,1605,1609>>>>,
       <<64889,<<1594,1605,1605>>>>, <<64890,<<1594,1605,1610>>>>, <<64891,<<1594,1605,1609>>>>, <<64892,<<1601,1582,1605>>>>,
       <<64893,<<1601,1582,1605>>>>, <<64894,<<1602,1605,1581>>>>, <<64895,<<1602,1605,1605>>>>, <<64896,<<1604,1581,1605>>>>,
       <<64897,<<1604,1581,1610>>>>, <<64898,<<1604,1581,1609>>>>, <<64899,<<1604,1580,1580>>>>, <<64900,<<1604,1580,1580>>>>,
       <<64901,<<1604,1582,1605>>>>, <<64902,<<1604,1582,1605>>>>, <<64903,<<1604,1605,1581>>>>, <<64904,<<1604,1605,1581>>>>,
       <<64905,<<1605,1581,1580>>>>, <<64906,<<1605,1581,1605>>>>, <<64907,<<1605,1581,1610>>>>, <<64908,<<1605,1580,1581>>>>,
       <<64909,<<1605,1580,1605>>>>, <<64910,<<1605,1582,1580>>>>, <<64911,<<1605,1582,1605>>>>, <<64914,<<1605,1580,1582>>>>,
       <<64915,<<1607,1605,1580>>>>, <<64916,<<1607,1605,1605>>>>, <<64917,<<1606,1581,1605>>>>, <<64918,<<1606,1581,1609>>>>,
       <<64919,<<1606,1580,1605>>>>, <<64920,<<1606,1580,1605>>>>, <<64921,<<1606,1580,1609>>>>, <<64922,<<1606,1605,1610>>>>,
       <<64923,<<1606,1605,1609>>>>, <<64924,<<1610,1605,1605>>>>, <<64925,<<1610,1605,1605>>>>, <<64926,<<1576,1582,1610>>>>,
       <<64927,<<1578,1580,1610>>>>, <<64928,<<1578,1580,1609>>>>, <<64929,<<1578,1582,1610>>>>, <<64930,<<1578,1582,1609>>>>,
       <<64931,<<1578,1605,1610>>>>, <<64932,<<1578,1605,1609>>>>, <<64933,<<1580,1605,1610>>>>, <<64934,<<1580,1581,1609>>>>,
       <<64935,<<1580,1605,1609>>>>, <<64936,<<1587,1582,1609>>>>, <<64937,<<1589,1581,1610>>>>, <<64938,<<1588,1581,1610>>>>,
       <<64939,<<1590,1581,1610>>>>, <<64940,<<1604,1580,1610>>>>, <<64941,<<1604,1605,1610>>>>, <<64942,<<1610,1581,1610>>>>,
       <<64943,<<1610,1580,1610>>>>, <<64944,<<1610,1605,1610>>>>, <<64945,<<1605,1605,1610>>>>, <<64946,<<1602,1605,1610>>>>,
       <<64947,<<1606,1581,1610>>>>, <<64948,<<1602,1605,1581>>>>, <<64949,<<1604,1581,1605>>>>, <<64950,<<1593,1605,1610>>>>,
       <<64951,<<1603,1605,1610>>>>, <<64952,<<1606,1580,1581>>>>, <<64953,<<1605,1582,1610>>>>, <<64954,<<1604,1580,1605>>>>,
       <<64955,<<1603,1605,1605>>>>, <<64956,<<1604,1580,1605>>>>, <<64957,<<1606,1580,1581>>>>, <<64958,<<1580,1581,1610>>>>,
       <<64959,<<1581,1580,1610>>>>, <<64960,<<1605,1580,1610>>>>, <<64961,<<1601,1605,1610>>>>, <<64962,<<1576,1581,1610>>>>,
       <<64963,<<1603,1605,1605>>>>, <<64964,<<1593,1580,1605>>>>, <<64965,<<1589,1605,1605>>>>, <<64966,<<1587,1582,1610>>>>,
       <<64967,<<1606,1580,1610>>>>, <<65008,<<1589,1604,1746>>>>, <<65009,<<1602,1604,1746>>>>, <<65010,<<1575,1604,1604,1607>>>>,
       <<65011,<<1575,1603,1576,1585>>>>, <<65012,<<1605,1581,1605,1583>>>>, <<65013,<<1589,1604,1593,1605>>>>, <<65014,<<1585,1587,1608,1604>>>>,
       <<65015,<<1593,1604,1610,1607>>>>, <<65016,<<1608,1587,1604,1605>>>>, <<65017,<<1589,1604,1609>>>>, <<65018,<<1589,1604,1609,32,1575,1604,1604,1607,32,1593,1604,1610,1607,32,1608,1587,1604,1605>>>>,
       <<65019,<<1580,1604,32,1580,1604,1575,1604,1607>>>>, <<65020,<<1585,1740,1575,1604>>>>, <<65097,<<32,773>>>>, <<65098,<<32,773>>>>,
       <<65099,<<32,773>>>>, <<65100,<<32,773>>>>, <<65136,<<32,1611>>>>, <<65137,<<1600,1611>>>>,
       <<65138,<<32,1612>>>>, <<65140,<<32,1613>>>>, <<65142,<<32,1614>>>>, <<65143,<<1600,1614>>>>,
       <<65144,<<32,1615>>>>, <<65145,<<1600,1615>>>>, <<65146,<<32,1616>>>>, <<65147,<<1600,1616>>>>,
       <<65148,<<32,1617>>>>, <<65149,<<1600,1617>>>>, <<65150,<<32,1618>>>>, <<65151,<<1600,1618>>>>,
       <<65269,<<1604,1570>>>>, <<65270,<<1604,1570>>>>, <<65271,<<1604,1571>>>>, <<65272,<<1604,1571>>>>,
       <<65273,<<1604,1573>>>>, <<65274,<<1604,1573>>>>, <<65275,<<1604,1575>>>>, <<65276,<<1604,1575>>>>,
       <<65507,<<32,772>>>>, <<119134,<<119127,119141>>>>, <<119135,<<119128,119141>>>>, <<119136,<<119128,119141,119150>>>>,
       <<119137,<<119128,119141,119151>>>>, <<119138,<<119128,119141,119152>>>>, <<119139,<<119128,119141,119153>>>>, <<119140,<<119128,119141,119154>>>>,
       <<119227,<<119225,119141>>>>, <<119228,<<119226,119141>>>>, <<119229,<<119225,119141,119150>>>>, <<119230,<<119226,119141,119150>>>>,
       <<119231,<<119225,119141,119151>>>>, <<119232,<<119226,119141,119151>>>>, <<127233,<<48,44>>>>, <<127234,<<49,44>>>>,
       <<127235,<<50,44>>>>, <<127236,<<51,44>>>>, <<127237,<<52,44>>>>, <<127238,<<53,44>>>>,
       <<127239,<<54,44>>>>, <<127240,<<55,44>>>>, <<127241,<<56,44>>>>, <<127242,<<57,44>>>>,
       <<127248,<<40,97,41>>>>, <<127249,<<40,98,41>>>>, <<127250,<<40,99,41>>>>, <<127251,<<40,100,41>>>>,
       <<127252,<<40,101,41>>>>, <<127253,<<40,102,41>>>>, <<127254,<<40,103,41>>>>, <<127255,<<40,104,41>>>>,
       <<127256,<<40,105,41>>>>, <<127257,<<40,106,41>>>>, <<127258,<<40,107,41>>>>, <<127259,<<40,108,41>>>>,
       <<127260,<<40,109,41>>>>, <<127261,<<40,110,41>>>>, <<127262,<<40,111,41>>>>, <<127263,<<40,112,41>>>>,
       <<127264,<<40,113,41>>>>, <<127265,<<40,114,41>>>>, <<127266,<<40,115,41>>>>, <<127267,<<40,116,41>>>>,
       <<127268,<<40,117,41>>>>, <<127269,<<40,118,41>>>>, <<127270,<<40,119,41>>>>, <<127271,<<40,120,41>>>>,
       <<127272,<<40,121,41>>>>, <<127273,<<40,122,41>>>>, <<127274,<<12308,115,12309>>>>, <<127277,<<99,100>>>>,
       <<127278,<<119,122>>>>, <<127306,<<104,118>>>>, <<127307,<<109,118>>>>, <<127308,<<115,100>>>>,
       <<127309,<<115,115>>>>, <<127310,<<112,112,118>>>>, <<127311,<<119,99>>>>, <<127338,<<109,99>>>>,
       <<127339,<<109,100>>>>, <<127340,<<109,114>>>>, <<127376,<<100,106>>>>, <<127488,<<12411,12363>>>>,
       <<127489,<<12467,12467>>>>, <<127552,<<12308,26412,12309>>>>, <<127553,<<12308,19977,12309>>>>, <<127554,<<12308,20108,12309>>>>,
       <<127555,<<12308,23433,12309>>>>, <<127556,<<12308,28857,12309>>>>, <<127557,<<12308,25171,12309>>>>, <<127558,<<12308,30423,12309>>>>,
       <<127559,<<12308,21213,12309>>>>, <<127560,<<12308,25943,12309>>>> >>

InRun(c, run) == run[1] <= c /\ c <= run[2] /\ (c - run[1]) % run[3] = 0

Uts46Mapped(c) ==
    IF \E i \in 1..Len(Uts46Single) : InRun(c, Uts46Single[i])
    THEN <<c + Uts46Single[CHOOSE i \in 1..Len(Uts46Single) : InRun(c, Uts46Single[i])][4]>>
    ELSE Uts46Multi[CHOOSE i \in 1..Len(Uts46Multi) : Uts46Multi[i][1] = c][2]

\* uts46_remap raises InvalidCodepoint for the character
Uts46Refused(c) ==
    /\ ~InRanges(c, Uts46Valid)
    /\ ~InRanges(c, Uts46Ignored)
    /\ ~(\E i \in 1..Len(Uts46Single) : InRun(c, Uts46Single[i]))
    /\ ~(\E i \in 1..Len(Uts46Multi) : Uts46Multi[i][1] = c)

Uts46Char(c) ==
    IF InRanges(c, Uts46Valid) THEN <<c>>
    ELSE IF InRanges(c, Uts46Ignored) THEN <<>>
    ELSE Uts46Mapped(c)

\* uts46_remap: every character kept, dropped or replaced, then the whole
\* normalized (NFC)
Uts46Remap(domain) ==
    IF \E i \in 1..Len(domain) : Uts46Refused(domain[i]) THEN [ok |-> FALSE, text |-> <<>>]
    ELSE [ok |-> TRUE, text |-> Nfc(Concat([i \in 1..Len(domain) |-> Uts46Char(domain[i])]))]

\* the dots of _unicode_dots_re
UnicodeDots == {46, 12290, 65294, 65377}

\* _unicode_dots_re.split(s)
SplitDots(s) == Split([i \in 1..Len(s) |-> IF s[i] \in UnicodeDots THEN 46 ELSE s[i]], 46)

EncodeRemapped(remapped) ==
    IF remapped.ok THEN Encoded(LabelsEncoded(SplitDots(remapped.text)))
    ELSE [ok |-> FALSE, text |-> <<>>]

\* idna.encode(s, uts46=True)
IdnaEncodeUts46(s) == EncodeRemapped(Uts46Remap(s))

\* urllib3 _idna_encode: a label with a character outside ASCII is encoded
\* by idna.encode(label.lower(), strict=True, std3_rules=True); any other is
\* put in lower case
IdnaEncodeLabel(label) ==
    IF IsAscii(label) THEN [ok |-> TRUE, text |-> Lower(label)]
    ELSE IdnaEncodeStrict(Lower(label))

IdnaEncodeLabels(labels) == [i \in 1..Len(labels) |-> IdnaEncodeLabel(labels[i])]

\* parse_url raises LocationParseError
ParseFails(scheme, host_port) ==
    \/ ~HostMatches(UrlHost(host_port))
    \/ ~RestMatches(AfterHost(host_port))
    \/ ~PortMatches(PortText(host_port))
    \/ Number(PortText(host_port)) > 65535
    \/ /\ Lower(scheme) \in {<<>>, Text("http"), Text("https")}
       /\ \E i \in 1..Len(Split(UrlHost(host_port), Ord["."])) :
                ~IdnaEncodeLabel(Split(UrlHost(host_port), Ord["."])[i]).ok

\* _normalize_host of an address in brackets: lower case but for the zone,
\* which is written after "%" without the "25" of its escape and
\* percent-encoded
NormalizeZone(zone) ==
    Text("%") \o EncodeInvalidChars(IF StartsWith(zone, Text("25")) /\ zone # Text("25")
                                    THEN From(zone, 2) ELSE zone,
                                    UnreservedChars)
NormalizeBracketed(host) ==
    IF Find(host, Chars("%")) = 0 THEN Lower(host)
    ELSE Lower(SubSeq(host, 1, Find(host, Chars("%")) - 1))
            \o NormalizeZone(SubSeq(host, Find(host, Chars("%")) + 1, Len(host) - 1))
            \o Text("]")

JoinedLabels(encoded) == Join([i \in 1..Len(encoded) |-> encoded[i].text], Ord["."])

\* _normalize_host: an address in brackets, or the labels between the dots,
\* each encoded
NormalizeHost(host) ==
    IF StartsWith(host, Text("[")) THEN NormalizeBracketed(host)
    ELSE JoinedLabels(IdnaEncodeLabels(Split(host, Ord["."])))

\* the parts of an address whose scheme is None, "http" or "https" are
\* normalized
ParsedNormal(scheme, authority, tail) ==
    [failed |-> FALSE,
     scheme |-> scheme,
     auth |-> EncodeInvalidChars(UrlAuth(authority), UserinfoChars),
     host |-> NormalizeHost(UrlHost(UrlHostPort(authority))),
     port |-> PortNumber(PortText(UrlHostPort(authority))),
     path |-> EncodeInvalidChars(RemovePathDotSegments(UrlPath(tail)), PathChars),
     query |-> EncodeInvalidChars(UrlQuery(tail), QueryChars),
     fragment |-> EncodeInvalidChars(UrlFragment(tail), QueryChars)]

ParsedOther(scheme, authority, tail) ==
    [failed |-> FALSE,
     scheme |-> scheme,
     auth |-> UrlAuth(authority),
     host |-> UrlHost(UrlHostPort(authority)),
     port |-> PortNumber(PortText(UrlHostPort(authority))),
     path |-> UrlPath(tail),
     query |-> UrlQuery(tail),
     fragment |-> UrlFragment(tail)]

\* Url.__new__: a path that does not start with "/" is given one
WithSlash(parsed) ==
    IF parsed.path # <<>> /\ parsed.path[1] # Ord["/"]
    THEN [parsed EXCEPT !.path = Text("/") \o @]
    ELSE parsed

ParsedUrl(scheme, authority, tail) ==
    IF ParseFails(scheme, UrlHostPort(authority)) THEN [failed |-> TRUE]
    ELSE IF scheme \in {<<>>, Text("http"), Text("https")}
    THEN WithSlash(ParsedNormal(scheme, authority, tail))
    ELSE WithSlash(ParsedOther(scheme, authority, tail))

\* urllib3.util.parse_url: the parts of an address (the scheme in lower
\* case; an empty text for a part that is None), or that it fails
ParseUrl(url) ==
    ParsedUrl(Lower(UrlScheme(url)),
              UrlAuthority(AfterScheme(url, UrlScheme(url))),
              AfterAuthority(AfterScheme(url, UrlScheme(url))))

\* str.isprintable() is false
NotPrintableRanges ==
    << <<0,31>>, <<127,160>>, <<173,173>>, <<888,889>>, <<896,899>>, <<907,907>>,
       <<909,909>>, <<930,930>>, <<1328,1328>>, <<1367,1368>>, <<1419,1420>>, <<1424,1424>>,
       <<1480,1487>>, <<1515,1518>>, <<1525,1541>>, <<1564,1564>>, <<1757,1757>>, <<1806,1807>>,
       <<1867,1868>>, <<1970,1983>>, <<2043,2044>>, <<2094,2095>>, <<2111,2111>>, <<2140,2141>>,
       <<2143,2143>>, <<2155,2159>>, <<2191,2199>>, <<2274,2274>>, <<2436,2436>>, <<2445,2446>>,
       <<2449,2450>>, <<2473,2473>>, <<2481,2481>>, <<2483,2485>>, <<2490,2491>>, <<2501,2502>>,
       <<2505,2506>>, <<2511,2518>>, <<2520,2523>>, <<2526,2526>>, <<2532,2533>>, <<2559,2560>>,
       <<2564,2564>>, <<2571,2574>>, <<2577,2578>>, <<2601,2601>>, <<2609,2609>>, <<2612,2612>>,
       <<2615,2615>>, <<2618,2619>>, <<2621,2621>>, <<2627,2630>>, <<2633,2634>>, <<2638,2640>>,
       <<2642,2648>>, <<2653,2653>>, <<2655,2661>>, <<2679,2688>>, <<2692,2692>>, <<2702,2702>>,
       <<2706,2706>>, <<2729,2729>>, <<2737,2737>>, <<2740,2740>>, <<2746,2747>>, <<2758,2758>>,
       <<2762,2762>>, <<2766,2767>>, <<2769,2783>>, <<2788,2789>>, <<2802,2808>>, <<2816,2816>>,
       <<2820,2820>>, <<2829,2830>>, <<2833,2834>>, <<2857,2857>>, <<2865,2865>>, <<2868,2868>>,
       <<2874,2875>>, <<2885,2886>>, <<2889,2890>>, <<2894,2900>>, <<2904,2907>>, <<2910,2910>>,
       <<2916,2917>>, <<2936,2945>>, <<2948,2948>>, <<2955,2957>>, <<2961,2961>>, <<2966,2968>>,
       <<2971,2971>>, <<2973,2973>>, <<2976,2978>>, <<2981,2983>>, <<2987,2989>>, <<3002,3005>>,
       <<3011,3013>>, <<3017,3017>>, <<3022,3023>>, <<3025,3030>>, <<3032,3045>>, <<3067,3071>>,
       <<3085,3085>>, <<3089,3089>>, <<3113,3113>>, <<3130,3131>>, <<3141,3141>>, <<3145,3145>>,
       <<3150,3156>>, <<3159,3159>>, <<3163,3164>>, <<3166,3167>>, <<3172,3173>>, <<3184,3190>>,
       <<3213,3213>>, <<3217,3217>>, <<3241,3241>>, <<3252,3252>>, <<3258,3259>>, <<3269,3269>>,
       <<3273,3273>>, <<3278,3284>>, <<3287,3292>>, <<3295,3295>>, <<3300,3301>>, <<3312,3312>>,
       <<3315,3327>>, <<3341,3341>>, <<3345,3345>>, <<3397,3397>>, <<3401,3401>>, <<3408,3411>>,
       <<3428,3429>>, <<3456,3456>>, <<3460,3460>>, <<3479,3481>>, <<3506,3506>>, <<3516,3516>>,
       <<3518,3519>>, <<3527,3529>>, <<3531,3534>>, <<3541,3541>>, <<3543,3543>>, <<3552,3557>>,
       <<3568,3569>>, <<3573,3584>>, <<3643,3646>>, <<3676,3712>>, <<3715,3715>>, <<3717,3717>>,
       <<3723,3723>>, <<3748,3748>>, <<3750,3750>>, <<3774,3775>>, <<3781,3781>>, <<3783,3783>>,
       <<3790,3791>>, <<3802,3803>>, <<3808,3839>>, <<3912,3912>>, <<3949,3952>>, <<3992,3992>>,
       <<4029,4029>>, <<4045,4045>>, <<4059,4095>>, <<4294,4294>>, <<4296,4300>>, <<4302,4303>>,
       <<4681,4681>>, <<4686,4687>>, <<4695,4695>>, <<4697,4697>>, <<4702,4703>>, <<4745,4745>>,
       <<4750,4751>>, <<4785,4785>>, <<4790,4791>>, <<4799,4799>>, <<4801,4801>>, <<4806,4807>>,
       <<4823,4823>>, <<4881,4881>>, <<4886,4887>>, <<4955,4956>>, <<4989,4991>>, <<5018,5023>>,
       <<5110,5111>>, <<5118,5119>>, <<5760,5760>>, <<5789,5791>>, <<5881,5887>>, <<5910,5918>>,
       <<5943,5951>>, <<5972,5983>>, <<5997,5997>>, <<6001,6001>>, <<6004,6015>>, <<6110,6111>>,
       <<6122,6127>>, <<6138,6143>>, <<6158,6158>>, <<6170,6175>>, <<6265,6271>>, <<6315,6319>>,
       <<6390,6399>>, <<6431,6431>>, <<6444,6447>>, <<6460,6463>>, <<6465,6467>>, <<6510,6511>>,
       <<6517,6527>>, <<6572,6575>>, <<6602,6607>>, <<6619,6621>>, <<6684,6685>>, <<6751,6751>>,
       <<6781,6782>>, <<6794,6799>>, <<6810,6815>>, <<6830,6831>>, <<6863,6911>>, <<6989,6991>>,
       <<7039,7039>>, <<7156,7163>>, <<7224,7226>>, <<7242,7244>>, <<7305,7311>>, <<7355,7356>>,
       <<7368,7375>>, <<7419,7423>>, <<7958,7959>>, <<7966,7967>>, <<8006,8007>>, <<8014,8015>>,
       <<8024,8024>>, <<8026,8026>>, <<8028,8028>>, <<8030,8030>>, <<8062,8063>>, <<8117,8117>>,
       <<8133,8133>>, <<8148,8149>>, <<8156,8156>>, <<8176,8177>>, <<8181,8181>>, <<8191,8207>>,
       <<8232,8239>>, <<8287,8303>>, <<8306,8307>>, <<8335,8335>>, <<8349,8351>>, <<8385,8399>>,
       <<8433,8447>>, <<8588,8591>>, <<9255,9279>>, <<9291,9311>>, <<11124,11125>>, <<11158,11158>>,
       <<11508,11512>>, <<11558,11558>>, <<11560,11564>>, <<11566,11567>>, <<11624,11630>>, <<11633,11646>>,
       <<11671,11679>>, <<11687,11687>>, <<11695,11695>>, <<11703,11703>>, <<11711,11711>>, <<11719,11719>>,
       <<11727,11727>>, <<11735,11735>>, <<11743,11743>>, <<11870,11903>>, <<11930,11930>>, <<12020,12031>>,
       <<12246,12271>>, <<12284,12288>>, <<12352,12352>>, <<12439,12440>>, <<12544,12548>>, <<12592,12592>>,
       <<12687,12687>>, <<12772,12783>>, <<12831,12831>>, <<42125,42127>>, <<42183,42191>>, <<42540,42559>>,
       <<42744,42751>>, <<42955,42959>>, <<42962,42962>>, <<42964,42964>>, <<42970,42993>>, <<43053,43055>>,
       <<43066,43071>>, <<43128,43135>>, <<43206,43213>>, <<43226,43231>>, <<43348,43358>>, <<43389,43391>>,
       <<43470,43470>>, <<43482,43485>>, <<43519,43519>>, <<43575,43583>>, <<43598,43599>>, <<43610,43611>>,
       <<43715,43738>>, <<43767,43776>>, <<43783,43784>>, <<43791,43792>>, <<43799,43807>>, <<43815,43815>>,
       <<43823,43823>>, <<43884,43887>>, <<44014,44015>>, <<44026,44031>>, <<55204,55215>>, <<55239,55242>>,
       <<55292,63743>>, <<64110,64111>>, <<64218,64255>>, <<64263,64274>>, <<64280,64284>>, <<64311,64311>>,
       <<64317,64317>>, <<64319,64319>>, <<64322,64322>>, <<64325,64325>>, <<64451,64466>>, <<64912,64913>>,
       <<64968,64974>>, <<64976,65007>>, <<65050,65055>>, <<65107,65107>>, <<65127,65127>>, <<65132,65135>>,
       <<65141,65141>>, <<65277,65280>>, <<65471,65473>>, <<65480,65481>>, <<65488,65489>>, <<65496,65497>>,
       <<65501,65503>>, <<65511,65511>>, <<65519,65531>>, <<65534,65535>>, <<65548,65548>>, <<65575,65575>>,
       <<65595,65595>>, <<65598,65598>>, <<65614,65615>>, <<65630,65663>>, <<65787,65791>>, <<65795,65798>>,
       <<65844,65846>>, <<65935,65935>>, <<65949,65951>>, <<65953,65999>>, <<66046,66175>>, <<66205,66207>>,
       <<66257,66271>>, <<66300,66303>>, <<66340,66348>>, <<66379,66383>>, <<66427,66431>>, <<66462,66462>>,
       <<66500,66503>>, <<66518,66559>>, <<66718,66719>>, <<66730,66735>>, <<66772,66775>>, <<66812,66815>>,
       <<66856,66863>>, <<66916,66926>>, <<66939,66939>>, <<66955,66955>>, <<66963,66963>>, <<66966,66966>>,
       <<66978,66978>>, <<66994,66994>>, <<67002,67002>>, <<67005,67071>>, <<67383,67391>>, <<67414,67423>>,
       <<67432,67455>>, <<67462,67462>>, <<67505,67505>>, <<67515,67583>>, <<67590,67591>>, <<67593,67593>>,
       <<67638,67638>>, <<67641,67643>>, <<67645,67646>>, <<67670,67670>>, <<67743,67750>>, <<67760,67807>>,
       <<67827,67827>>, <<67830,67834>>, <<67868,67870>>, <<67898,67902>>, <<67904,67967>>, <<68024,68027>>,
       <<68048,68049>>, <<68100,68100>>, <<68103,68107>>, <<68116,68116>>, <<68120,68120>>, <<68150,68151>>,
       <<68155,68158>>, <<68169,68175>>, <<68185,68191>>, <<68256,68287>>, <<68327,68330>>, <<68343,68351>>,
       <<68406,68408>>, <<68438,68439>>, <<68467,68471>>, <<68498,68504>>, <<68509,68520>>, <<68528,68607>>,
       <<68681,68735>>, <<68787,68799>>, <<68851,68857>>, <<68904,68911>>, <<68922,69215>>, <<69247,69247>>,
       <<69290,69290>>, <<69294,69295>>, <<69298,69375>>, <<69416,69423>>, <<69466,69487>>, <<69514,69551>>,
       <<69580,69599>>, <<69623,69631>>, <<69710,69713>>, <<69750,69758>>, <<69821,69821>>, <<69827,69839>>,
       <<69865,69871>>, <<69882,69887>>, <<69941,69941>>, <<69960,69967>>, <<70007,70015>>, <<70112,70112>>,
       <<70133,70143>>, <<70162,70162>>, <<70207,70271>>, <<70279,70279>>, <<70281,70281>>, <<70286,70286>>,
       <<70302,70302>>, <<70314,70319>>, <<70379,70383>>, <<70394,70399>>, <<70404,70404>>, <<70413,70414>>,
       <<70417,70418>>, <<70441,70441>>, <<70449,70449>>, <<70452,70452>>, <<70458,70458>>, <<70469,70470>>,
       <<70473,70474>>, <<70478,70479>>, <<70481,70486>>, <<70488,70492>>, <<70500,70501>>, <<70509,70511>>,
       <<70517,70655>>, <<70748,70748>>, <<70754,70783>>, <<70856,70863>>, <<70874,71039>>, <<71094,71095>>,
       <<71134,71167>>, <<71237,71247>>, <<71258,71263>>, <<71277,71295>>, <<71354,71359>>, <<71370,71423>>,
       <<71451,71452>>, <<71468,71471>>, <<71495,71679>>, <<71740,71839>>, <<71923,71934>>, <<71943,71944>>,
       <<71946,71947>>, <<71956,71956>>, <<71959,71959>>, <<71990,71990>>, <<71993,71994>>, <<72007,72015>>,
       <<72026,72095>>, <<72104,72105>>, <<72152,72153>>, <<72165,72191>>, <<72264,72271>>, <<72355,72367>>,
       <<72441,72703>>, <<72713,72713>>, <<72759,72759>>, <<72774,72783>>, <<72813,72815>>, <<72848,72849>>,
       <<72872,72872>>, <<72887,72959>>, <<72967,72967>>, <<72970,72970>>, <<73015,73017>>, <<73019,73019>>,
       <<73022,73022>>, <<73032,73039>>, <<73050,73055>>, <<73062,73062>>, <<73065,73065>>, <<73103,73103>>,
       <<73106,73106>>, <<73113,73119>>, <<73130,73439>>, <<73465,73647>>, <<73649,73663>>, <<73714,73726>>,
       <<74650,74751>>, <<74863,74863>>, <<74869,74879>>, <<75076,77711>>, <<77811,77823>>, <<78895,82943>>,
       <<83527,92159>>, <<92729,92735>>, <<92767,92767>>, <<92778,92781>>, <<92863,92863>>, <<92874,92879>>,
       <<92910,92911>>, <<92918,92927>>, <<92998,93007>>, <<93018,93018>>, <<93026,93026>>, <<93048,93052>>,
       <<93072,93759>>, <<93851,93951>>, <<94027,94030>>, <<94088,94094>>, <<94112,94175>>, <<94181,94191>>,
       <<94194,94207>>, <<100344,100351>>, <<101590,101631>>, <<101641,110575>>, <<110580,110580>>, <<110588,110588>>,
       <<110591,110591>>, <<110883,110927>>, <<110931,110947>>, <<110952,110959>>, <<111356,113663>>, <<113771,113775>>,
       <<113789,113791>>, <<113801,113807>>, <<113818,113819>>, <<113824,118527>>, <<118574,118575>>, <<118599,118607>>,
       <<118724,118783>>, <<119030,119039>>, <<119079,119080>>, <<119155,119162>>, <<119275,119295>>, <<119366,119519>>,
       <<119540,119551>>, <<119639,119647>>, <<119673,119807>>, <<119893,119893>>, <<119965,119965>>, <<119968,119969>>,
       <<119971,119972>>, <<119975,119976>>, <<119981,119981>>, <<119994,119994>>, <<119996,119996>>, <<120004,120004>>,
       <<120070,120070>>, <<120075,120076>>, <<120085,120085>>, <<120093,120093>>, <<120122,120122>>, <<120127,120127>>,
       <<120133,120133>>, <<120135,120137>>, <<120145,120145>>, <<120486,120487>>, <<120780,120781>>, <<121484,121498>>,
       <<121504,121504>>, <<121520,122623>>, <<122655,122879>>, <<122887,122887>>, <<122905,122906>>, <<122914,122914>>,
       <<122917,122917>>, <<122923,123135>>, <<123181,123183>>, <<123198,123199>>, <<123210,123213>>, <<123216,123535>>,
       <<123567,123583>>, <<123642,123646>>, <<123648,124895>>, <<124903,124903>>, <<124908,124908>>, <<124911,124911>>,
       <<124927,124927>>, <<125125,125126>>, <<125143,125183>>, <<125260,125263>>, <<125274,125277>>, <<125280,126064>>,
       <<126133,126208>>, <<126270,126463>>, <<126468,126468>>, <<126496,126496>>, <<126499,126499>>, <<126501,126502>>,
       <<126504,126504>>, <<126515,126515>>, <<126520,126520>>, <<126522,126522>>, <<126524,126529>>, <<126531,126534>>,
       <<126536,126536>>, <<126538,126538>>, <<126540,126540>>, <<126544,126544>>, <<126547,126547>>, <<126549,126550>>,
       <<126552,126552>>, <<126554,126554>>, <<126556,126556>>, <<126558,126558>>, <<126560,126560>>, <<126563,126563>>,
       <<126565,126566>>, <<126571,126571>>, <<126579,126579>>, <<126584,126584>>, <<126589,126589>>, <<126591,126591>>,
       <<126602,126602>>, <<126620,126624>>, <<126628,126628>>, <<126634,126634>>, <<126652,126703>>, <<126706,126975>>,
       <<127020,127023>>, <<127124,127135>>, <<127151,127152>>, <<127168,127168>>, <<127184,127184>>, <<127222,127231>>,
       <<127406,127461>>, <<127491,127503>>, <<127548,127551>>, <<127561,127567>>, <<127570,127583>>, <<127590,127743>>,
       <<128728,128732>>, <<128749,128751>>, <<128765,128767>>, <<128884,128895>>, <<128985,128991>>, <<129004,129007>>,
       <<129009,129023>>, <<129036,129039>>, <<129096,129103>>, <<129114,129119>>, <<129160,129167>>, <<129198,129199>>,
       <<129202,129279>>, <<129620,129631>>, <<129646,129647>>, <<129653,129655>>, <<129661,129663>>, <<129671,129679>>,
       <<129709,129711>>, <<129723,129727>>, <<129734,129743>>, <<129754,129759>>, <<129768,129775>>, <<129783,129791>>,
       <<129939,129939>>, <<129995,130031>>, <<130042,131071>>, <<173792,173823>>, <<177977,177983>>, <<178206,178207>>,
       <<183970,183983>>, <<191457,194559>>, <<195102,196607>>, <<201547,917759>>, <<918000,1114111>> >>

\* "\xNN", "\uNNNN" or "\UNNNNNNNN" for a character repr() escapes
HexEscape(c) ==
    IF c < 256 THEN Text("\\x") \o <<HexLower[(c \div 16) + 1], HexLower[(c % 16) + 1]>>
    ELSE IF c < 65536
    THEN Text("\\u") \o <<HexLower[(c \div 4096) + 1], HexLower[((c \div 256) % 16) + 1],
                          HexLower[((c \div 16) % 16) + 1], HexLower[(c % 16) + 1]>>
    ELSE Text("\\U00") \o <<HexLower[(c \div 1048576) + 1], HexLower[((c \div 65536) % 16) + 1],
                            HexLower[((c \div 4096) % 16) + 1], HexLower[((c \div 256) % 16) + 1],
                            HexLower[((c \div 16) % 16) + 1], HexLower[(c % 16) + 1]>>

ReprChar(c, quote) ==
    IF c = quote \/ c = Ord["\\"] THEN <<Ord["\\"], c>>
    ELSE IF c = 9 THEN Text("\\t")
    ELSE IF c = 10 THEN Text("\\n")
    ELSE IF c = 13 THEN Text("\\r")
    ELSE IF InRanges(c, NotPrintableRanges) THEN HexEscape(c)
    ELSE <<c>>

Quoted(s, quote) == <<quote>> \o Concat([i \in 1..Len(s) |-> ReprChar(s[i], quote)]) \o <<quote>>

\* repr(s), the {url!r} of the messages: in double quotes when the text has
\* a single quote and no double quote
Repr(s) ==
    IF (\E i \in 1..Len(s) : s[i] = Ord["'"]) /\ ~(\E i \in 1..Len(s) : s[i] = Ord["\""])
    THEN Quoted(s, Ord["\""])
    ELSE Quoted(s, Ord["'"])

StrNoAdapters == Text("No connection adapters were found for ")
StrInvalidUrl == Text("Invalid URL ")
StrNoScheme == Text(": No scheme supplied. Perhaps you meant https://")
StrNoHost == Text(": No host supplied")
StrFailedToParse == Text("Failed to parse: ")
StrInvalidLabel == Text("URL has an invalid label.")
StrNetloc == Text("netloc '")
StrNfkc == Text("' contains invalid characters under NFKC normalization")
StrInvalidIpv6 == Text("Invalid IPv6 URL")
StrIpvFuture == Text("IPvFuture address is invalid")
StrIpv4InBrackets == Text("An IPv4 address cannot be in brackets")
StrNotAnAddress == Text(" does not appear to be an IPv4 or IPv6 address")

ErrInvalidSchema(url) ==
    [kind |-> "InvalidSchema", base |-> "Exception", msg |-> StrNoAdapters \o Repr(url)]
ErrMissingSchema(url) ==
    [kind |-> "MissingSchema", base |-> "Exception",
     msg |-> StrInvalidUrl \o Repr(url) \o StrNoScheme \o url \o Text("?")]
ErrNoHost(url) ==
    [kind |-> "InvalidURL", base |-> "Exception",
     msg |-> StrInvalidUrl \o Repr(url) \o StrNoHost]
ErrFailedToParse(url) ==
    [kind |-> "InvalidURL", base |-> "Exception", msg |-> StrFailedToParse \o url]
ErrInvalidLabel ==
    [kind |-> "InvalidURL", base |-> "Exception", msg |-> StrInvalidLabel]
ErrNetloc(netloc) ==
    [kind |-> "ValueError", base |-> "Exception", msg |-> StrNetloc \o netloc \o StrNfkc]
ErrValue(msg) == [kind |-> "ValueError", base |-> "Exception", msg |-> msg]

\* int(h, 16) for a character: a hexadecimal digit, or a decimal digit of
\* any script
DecimalZeros ==
    << 48, 1632, 1776, 1984, 2406, 2534, 2662, 2790, 2918, 3046, 3174, 3302,
       3430, 3558, 3664, 3792, 3872, 4160, 4240, 6112, 6160, 6470, 6608, 6784,
       6800, 6992, 7088, 7232, 7248, 42528, 43216, 43264, 43472, 43504, 43600, 44016,
       65296, 66720, 68912, 69734, 69872, 69942, 70096, 70384, 70736, 70864, 71248, 71360,
       71472, 71904, 72016, 72784, 73040, 73120, 92768, 92864, 93008, 120782, 120792, 120802,
       120812, 120822, 123200, 123632, 125264, 130032 >>

HexValue(c) ==
    IF c \in Digits THEN c - 48
    ELSE IF c \in 65..70 THEN c - 55
    ELSE IF c \in 97..102 THEN c - 87
    ELSE IF \E k \in 1..Len(DecimalZeros) : DecimalZeros[k] <= c /\ c <= DecimalZeros[k] + 9
    THEN c - DecimalZeros[CHOOSE k \in 1..Len(DecimalZeros) :
                                DecimalZeros[k] <= c /\ c <= DecimalZeros[k] + 9]
    ELSE -1

\* str.isalnum() is true
AlnumRanges ==
    << <<48,57>>, <<65,90>>, <<97,122>>, <<170,170>>, <<178,179>>, <<181,181>>,
       <<185,186>>, <<188,190>>, <<192,214>>, <<216,246>>, <<248,705>>, <<710,721>>,
       <<736,740>>, <<748,748>>, <<750,750>>, <<880,884>>, <<886,887>>, <<890,893>>,
       <<895,895>>, <<902,902>>, <<904,906>>, <<908,908>>, <<910,929>>, <<931,1013>>,
       <<1015,1153>>, <<1162,1327>>, <<1329,1366>>, <<1369,1369>>, <<1376,1416>>, <<1488,1514>>,
       <<1519,1522>>, <<1568,1610>>, <<1632,1641>>, <<1646,1647>>, <<1649,1747>>, <<1749,1749>>,
       <<1765,1766>>, <<1774,1788>>, <<1791,1791>>, <<1808,1808>>, <<1810,1839>>, <<1869,1957>>,
       <<1969,1969>>, <<1984,2026>>, <<2036,2037>>, <<2042,2042>>, <<2048,2069>>, <<2074,2074>>,
       <<2084,2084>>, <<2088,2088>>, <<2112,2136>>, <<2144,2154>>, <<2160,2183>>, <<2185,2190>>,
       <<2208,2249>>, <<2308,2361>>, <<2365,2365>>, <<2384,2384>>, <<2392,2401>>, <<2406,2415>>,
       <<2417,2432>>, <<2437,2444>>, <<2447,2448>>, <<2451,2472>>, <<2474,2480>>, <<2482,2482>>,
       <<2486,2489>>, <<2493,2493>>, <<2510,2510>>, <<2524,2525>>, <<2527,2529>>, <<2534,2545>>,
       <<2548,2553>>, <<2556,2556>>, <<2565,2570>>, <<2575,2576>>, <<2579,2600>>, <<2602,2608>>,
       <<2610,2611>>, <<2613,2614>>, <<2616,2617>>, <<2649,2652>>, <<2654,2654>>, <<2662,2671>>,
       <<2674,2676>>, <<2693,2701>>, <<2703,2705>>, <<2707,2728>>, <<2730,2736>>, <<2738,2739>>,
       <<2741,2745>>, <<2749,2749>>, <<2768,2768>>, <<2784,2785>>, <<2790,2799>>, <<2809,2809>>,
       <<2821,2828>>, <<2831,2832>>, <<2835,2856>>, <<2858,2864>>, <<2866,2867>>, <<2869,2873>>,
       <<2877,2877>>, <<2908,2909>>, <<2911,2913>>, <<2918,2927>>, <<2929,2935>>, <<2947,2947>>,
       <<2949,2954>>, <<2958,2960>>, <<2962,2965>>, <<2969,2970>>, <<2972,2972>>, <<2974,2975>>,
       <<2979,2980>>, <<2984,2986>>, <<2990,3001>>, <<3024,3024>>, <<3046,3058>>, <<3077,3084>>,
       <<3086,3088>>, <<3090,3112>>, <<3114,3129>>, <<3133,3133>>, <<3160,3162>>, <<3165,3165>>,
       <<3168,3169>>, <<3174,3183>>, <<3192,3198>>, <<3200,3200>>, <<3205,3212>>, <<3214,3216>>,
       <<3218,3240>>, <<3242,3251>>, <<3253,3257>>, <<3261,3261>>, <<3293,3294>>, <<3296,3297>>,
       <<3302,3311>>, <<3313,3314>>, <<3332,3340>>, <<3342,3344>>, <<3346,3386>>, <<3389,3389>>,
       <<3406,3406>>, <<3412,3414>>, <<3416,3425>>, <<3430,3448>>, <<3450,3455>>, <<3461,3478>>,
       <<3482,3505>>, <<3507,3515>>, <<3517,3517>>, <<3520,3526>>, <<3558,3567>>, <<3585,3632>>,
       <<3634,3635>>, <<3648,3654>>, <<3664,3673>>, <<3713,3714>>, <<3716,3716>>, <<3718,3722>>,
       <<3724,3747>>, <<3749,3749>>, <<3751,3760>>, <<3762,3763>>, <<3773,3773>>, <<3776,3780>>,
       <<3782,3782>>, <<3792,3801>>, <<3804,3807>>, <<3840,3840>>, <<3872,3891>>, <<3904,3911>>,
       <<3913,3948>>, <<3976,3980>>, <<4096,4138>>, <<4159,4169>>, <<4176,4181>>, <<4186,4189>>,
       <<4193,4193>>, <<4197,4198>>, <<4206,4208>>, <<4213,4225>>, <<4238,4238>>, <<4240,4249>>,
       <<4256,4293>>, <<4295,4295>>, <<4301,4301>>, <<4304,4346>>, <<4348,4680>>, <<4682,4685>>,
       <<4688,4694>>, <<4696,4696>>, <<4698,4701>>, <<4704,4744>>, <<4746,4749>>, <<4752,4784>>,
       <<4786,4789>>, <<4792,4798>>, <<4800,4800>>, <<4802,4805>>, <<4808,4822>>, <<4824,4880>>,
       <<4882,4885>>, <<4888,4954>>, <<4969,4988>>, <<4992,5007>>, <<5024,5109>>, <<5112,5117>>,
       <<5121,5740>>, <<5743,5759>>, <<5761,5786>>, <<5792,5866>>, <<5870,5880>>, <<5888,5905>>,
       <<5919,5937>>, <<5952,5969>>, <<5984,5996>>, <<5998,6000>>, <<6016,6067>>, <<6103,6103>>,
       <<6108,6108>>, <<6112,6121>>, <<6128,6137>>, <<6160,6169>>, <<6176,6264>>, <<6272,6276>>,
       <<6279,6312>>, <<6314,6314>>, <<6320,6389>>, <<6400,6430>>, <<6470,6509>>, <<6512,6516>>,
       <<6528,6571>>, <<6576,6601>>, <<6608,6618>>, <<6656,6678>>, <<6688,6740>>, <<6784,6793>>,
       <<6800,6809>>, <<6823,6823>>, <<6917,6963>>, <<6981,6988>>, <<6992,7001>>, <<7043,7072>>,
       <<7086,7141>>, <<7168,7203>>, <<7232,7241>>, <<7245,7293>>, <<7296,7304>>, <<7312,7354>>,
       <<7357,7359>>, <<7401,7404>>, <<7406,7411>>, <<7413,7414>>, <<7418,7418>>, <<7424,7615>>,
       <<7680,7957>>, <<7960,7965>>, <<7968,8005>>, <<8008,8013>>, <<8016,8023>>, <<8025,8025>>,
       <<8027,8027>>, <<8029,8029>>, <<8031,8061>>, <<8064,8116>>, <<8118,8124>>, <<8126,8126>>,
       <<8130,8132>>, <<8134,8140>>, <<8144,8147>>, <<8150,8155>>, <<8160,8172>>, <<8178,8180>>,
       <<8182,8188>>, <<8304,8305>>, <<8308,8313>>, <<8319,8329>>, <<8336,8348>>, <<8450,8450>>,
       <<8455,8455>>, <<8458,8467>>, <<8469,8469>>, <<8473,8477>>, <<8484,8484>>, <<8486,8486>>,
       <<8488,8488>>, <<8490,8493>>, <<8495,8505>>, <<8508,8511>>, <<8517,8521>>, <<8526,8526>>,
       <<8528,8585>>, <<9312,9371>>, <<9450,9471>>, <<10102,10131>>, <<11264,11492>>, <<11499,11502>>,
       <<11506,11507>>, <<11517,11517>>, <<11520,11557>>, <<11559,11559>>, <<11565,11565>>, <<11568,11623>>,
       <<11631,11631>>, <<11648,11670>>, <<11680,11686>>, <<11688,11694>>, <<11696,11702>>, <<11704,11710>>,
       <<11712,11718>>, <<11720,11726>>, <<11728,11734>>, <<11736,11742>>, <<11823,11823>>, <<12293,12295>>,
       <<12321,12329>>, <<12337,12341>>, <<12344,12348>>, <<12353,12438>>, <<12445,12447>>, <<12449,12538>>,
       <<12540,12543>>, <<12549,12591>>, <<12593,12686>>, <<12690,12693>>, <<12704,12735>>, <<12784,12799>>,
       <<12832,12841>>, <<12872,12879>>, <<12881,12895>>, <<12928,12937>>, <<12977,12991>>, <<13312,19903>>,
       <<19968,42124>>, <<42192,42237>>, <<42240,42508>>, <<42512,42539>>, <<42560,42606>>, <<42623,42653>>,
       <<42656,42735>>, <<42775,42783>>, <<42786,42888>>, <<42891,42954>>, <<42960,42961>>, <<42963,42963>>,
       <<42965,42969>>, <<42994,43009>>, <<43011,43013>>, <<43015,43018>>, <<43020,43042>>, <<43056,43061>>,
       <<43072,43123>>, <<43138,43187>>, <<43216,43225>>, <<43250,43255>>, <<43259,43259>>, <<43261,43262>>,
       <<43264,43301>>, <<43312,43334>>, <<43360,43388>>, <<43396,43442>>, <<43471,43481>>, <<43488,43492>>,
       <<43494,43518>>, <<43520,43560>>, <<43584,43586>>, <<43588,43595>>, <<43600,43609>>, <<43616,43638>>,
       <<43642,43642>>, <<43646,43695>>, <<43697,43697>>, <<43701,43702>>, <<43705,43709>>, <<43712,43712>>,
       <<43714,43714>>, <<43739,43741>>, <<43744,43754>>, <<43762,43764>>, <<43777,43782>>, <<43785,43790>>,
       <<43793,43798>>, <<43808,43814>>, <<43816,43822>>, <<43824,43866>>, <<43868,43881>>, <<43888,44002>>,
       <<44016,44025>>, <<44032,55203>>, <<55216,55238>>, <<55243,55291>>, <<63744,64109>>, <<64112,64217>>,
       <<64256,64262>>, <<64275,64279>>, <<64285,64285>>, <<64287,64296>>, <<64298,64310>>, <<64312,64316>>,
       <<64318,64318>>, <<64320,64321>>, <<64323,64324>>, <<64326,64433>>, <<64467,64829>>, <<64848,64911>>,
       <<64914,64967>>, <<65008,65019>>, <<65136,65140>>, <<65142,65276>>, <<65296,65305>>, <<65313,65338>>,
       <<65345,65370>>, <<65382,65470>>, <<65474,65479>>, <<65482,65487>>, <<65490,65495>>, <<65498,65500>>,
       <<65536,65547>>, <<65549,65574>>, <<65576,65594>>, <<65596,65597>>, <<65599,65613>>, <<65616,65629>>,
       <<65664,65786>>, <<65799,65843>>, <<65856,65912>>, <<65930,65931>>, <<66176,66204>>, <<66208,66256>>,
       <<66273,66299>>, <<66304,66339>>, <<66349,66378>>, <<66384,66421>>, <<66432,66461>>, <<66464,66499>>,
       <<66504,66511>>, <<66513,66517>>, <<66560,66717>>, <<66720,66729>>, <<66736,66771>>, <<66776,66811>>,
       <<66816,66855>>, <<66864,66915>>, <<66928,66938>>, <<66940,66954>>, <<66956,66962>>, <<66964,66965>>,
       <<66967,66977>>, <<66979,66993>>, <<66995,67001>>, <<67003,67004>>, <<67072,67382>>, <<67392,67413>>,
       <<67424,67431>>, <<67456,67461>>, <<67463,67504>>, <<67506,67514>>, <<67584,67589>>, <<67592,67592>>,
       <<67594,67637>>, <<67639,67640>>, <<67644,67644>>, <<67647,67669>>, <<67672,67702>>, <<67705,67742>>,
       <<67751,67759>>, <<67808,67826>>, <<67828,67829>>, <<67835,67867>>, <<67872,67897>>, <<67968,68023>>,
       <<68028,68047>>, <<68050,68096>>, <<68112,68115>>, <<68117,68119>>, <<68121,68149>>, <<68160,68168>>,
       <<68192,68222>>, <<68224,68255>>, <<68288,68295>>, <<68297,68324>>, <<68331,68335>>, <<68352,68405>>,
       <<68416,68437>>, <<68440,68466>>, <<68472,68497>>, <<68521,68527>>, <<68608,68680>>, <<68736,68786>>,
       <<68800,68850>>, <<68858,68899>>, <<68912,68921>>, <<69216,69246>>, <<69248,69289>>, <<69296,69297>>,
       <<69376,69415>>, <<69424,69445>>, <<69457,69460>>, <<69488,69505>>, <<69552,69579>>, <<69600,69622>>,
       <<69635,69687>>, <<69714,69743>>, <<69745,69746>>, <<69749,69749>>, <<69763,69807>>, <<69840,69864>>,
       <<69872,69881>>, <<69891,69926>>, <<69942,69951>>, <<69956,69956>>, <<69959,69959>>, <<69968,70002>>,
       <<70006,70006>>, <<70019,70066>>, <<70081,70084>>, <<70096,70106>>, <<70108,70108>>, <<70113,70132>>,
       <<70144,70161>>, <<70163,70187>>, <<70272,70278>>, <<70280,70280>>, <<70282,70285>>, <<70287,70301>>,
       <<70303,70312>>, <<70320,70366>>, <<70384,70393>>, <<70405,70412>>, <<70415,70416>>, <<70419,70440>>,
       <<70442,70448>>, <<70450,70451>>, <<70453,70457>>, <<70461,70461>>, <<70480,70480>>, <<70493,70497>>,
       <<70656,70708>>, <<70727,70730>>, <<70736,70745>>, <<70751,70753>>, <<70784,70831>>, <<70852,70853>>,
       <<70855,70855>>, <<70864,70873>>, <<71040,71086>>, <<71128,71131>>, <<71168,71215>>, <<71236,71236>>,
       <<71248,71257>>, <<71296,71338>>, <<71352,71352>>, <<71360,71369>>, <<71424,71450>>, <<71472,71483>>,
       <<71488,71494>>, <<71680,71723>>, <<71840,71922>>, <<71935,71942>>, <<71945,71945>>, <<71948,71955>>,
       <<71957,71958>>, <<71960,71983>>, <<71999,71999>>, <<72001,72001>>, <<72016,72025>>, <<72096,72103>>,
       <<72106,72144>>, <<72161,72161>>, <<72163,72163>>, <<72192,72192>>, <<72203,72242>>, <<72250,72250>>,
       <<72272,72272>>, <<72284,72329>>, <<72349,72349>>, <<72368,72440>>, <<72704,72712>>, <<72714,72750>>,
       <<72768,72768>>, <<72784,72812>>, <<72818,72847>>, <<72960,72966>>, <<72968,72969>>, <<72971,73008>>,
       <<73030,73030>>, <<73040,73049>>, <<73056,73061>>, <<73063,73064>>, <<73066,73097>>, <<73112,73112>>,
       <<73120,73129>>, <<73440,73458>>, <<73648,73648>>, <<73664,73684>>, <<73728,74649>>, <<74752,74862>>,
       <<74880,75075>>, <<77712,77808>>, <<77824,78894>>, <<82944,83526>>, <<92160,92728>>, <<92736,92766>>,
       <<92768,92777>>, <<92784,92862>>, <<92864,92873>>, <<92880,92909>>, <<92928,92975>>, <<92992,92995>>,
       <<93008,93017>>, <<93019,93025>>, <<93027,93047>>, <<93053,93071>>, <<93760,93846>>, <<93952,94026>>,
       <<94032,94032>>, <<94099,94111>>, <<94176,94177>>, <<94179,94179>>, <<94208,100343>>, <<100352,101589>>,
       <<101632,101640>>, <<110576,110579>>, <<110581,110587>>, <<110589,110590>>, <<110592,110882>>, <<110928,110930>>,
       <<110948,110951>>, <<110960,111355>>, <<113664,113770>>, <<113776,113788>>, <<113792,113800>>, <<113808,113817>>,
       <<119520,119539>>, <<119648,119672>>, <<119808,119892>>, <<119894,119964>>, <<119966,119967>>, <<119970,119970>>,
       <<119973,119974>>, <<119977,119980>>, <<119982,119993>>, <<119995,119995>>, <<119997,120003>>, <<120005,120069>>,
       <<120071,120074>>, <<120077,120084>>, <<120086,120092>>, <<120094,120121>>, <<120123,120126>>, <<120128,120132>>,
       <<120134,120134>>, <<120138,120144>>, <<120146,120485>>, <<120488,120512>>, <<120514,120538>>, <<120540,120570>>,
       <<120572,120596>>, <<120598,120628>>, <<120630,120654>>, <<120656,120686>>, <<120688,120712>>, <<120714,120744>>,
       <<120746,120770>>, <<120772,120779>>, <<120782,120831>>, <<122624,122654>>, <<123136,123180>>, <<123191,123197>>,
       <<123200,123209>>, <<123214,123214>>, <<123536,123565>>, <<123584,123627>>, <<123632,123641>>, <<124896,124902>>,
       <<124904,124907>>, <<124909,124910>>, <<124912,124926>>, <<124928,125124>>, <<125127,125135>>, <<125184,125251>>,
       <<125259,125259>>, <<125264,125273>>, <<126065,126123>>, <<126125,126127>>, <<126129,126132>>, <<126209,126253>>,
       <<126255,126269>>, <<126464,126467>>, <<126469,126495>>, <<126497,126498>>, <<126500,126500>>, <<126503,126503>>,
       <<126505,126514>>, <<126516,126519>>, <<126521,126521>>, <<126523,126523>>, <<126530,126530>>, <<126535,126535>>,
       <<126537,126537>>, <<126539,126539>>, <<126541,126543>>, <<126545,126546>>, <<126548,126548>>, <<126551,126551>>,
       <<126553,126553>>, <<126555,126555>>, <<126557,126557>>, <<126559,126559>>, <<126561,126562>>, <<126564,126564>>,
       <<126567,126570>>, <<126572,126578>>, <<126580,126583>>, <<126585,126588>>, <<126590,126590>>, <<126592,126601>>,
       <<126603,126619>>, <<126625,126627>>, <<126629,126633>>, <<126635,126651>>, <<127232,127244>>, <<130032,130041>>,
       <<131072,173791>>, <<173824,177976>>, <<177984,178205>>, <<178208,183969>>, <<183984,191456>>, <<194560,195101>>,
       <<196608,201546>> >>

\* the part of an address that follows a "%", in unquote_unreserved: it
\* starts with two characters that are alphanumeric
StartsAlnum(part) ==
    Len(part) >= 2 /\ InRanges(part[1], AlnumRanges) /\ InRanges(part[2], AlnumRanges)

\* int(h, 16) raises
BadEscape(part) == StartsAlnum(part) /\ (HexValue(part[1]) < 0 \/ HexValue(part[2]) < 0)

UnquotedPart(part) ==
    IF StartsAlnum(part) /\ (16 * HexValue(part[1]) + HexValue(part[2])) \in UnreservedChars
    THEN <<16 * HexValue(part[1]) + HexValue(part[2])>> \o From(part, 2)
    ELSE <<37>> \o part

\* requests.utils.unquote_unreserved, for the parts the address has between
\* its "%"
UnquoteUnreserved(parts) ==
    parts[1] \o Concat([i \in 1..(Len(parts) - 1) |-> UnquotedPart(parts[i + 1])])

\* urllib.parse.quote(s, safe)
Quote(s, safe) ==
    Concat([i \in 1..Len(s) |->
                IF s[i] \in UnreservedChars \cup safe THEN <<s[i]>> ELSE PercentEncoded(s[i])])

SafeWithoutPercent == Chars("!#$&'()*+,/:;=?@[]~")
SafeWithPercent == SafeWithoutPercent \cup Chars("%")

RequoteParts(uri, parts) ==
    IF \E i \in 2..Len(parts) : BadEscape(parts[i])
    THEN Quote(uri, SafeWithoutPercent)
    ELSE Quote(UnquoteUnreserved(parts), SafeWithPercent)

\* requests.utils.requote_uri
RequoteUri(uri) == RequoteParts(uri, Split(uri, 37))

\* urlunparse of the parts, the network location rebuilt: no ":" for a port
\* that is absent or 0, "/" for an empty path, no "?" or "#" for an empty
\* query or fragment
Unparsed(parsed) ==
    parsed.scheme \o Text("://")
    \o (IF parsed.auth # <<>> THEN parsed.auth \o Text("@") ELSE <<>>)
    \o parsed.host
    \o (IF parsed.port \notin {<<>>, Text("0")} THEN Text(":") \o parsed.port ELSE <<>>)
    \o (IF parsed.path = <<>> THEN Text("/") ELSE parsed.path)
    \o (IF parsed.query # <<>> THEN Text("?") \o parsed.query ELSE <<>>)
    \o (IF parsed.fragment # <<>> THEN Text("#") \o parsed.fragment ELSE <<>>)

\* prepare_url for a host with a character outside ASCII:
\* _get_idna_encoded_host gives the host of the address, or fails
PrepareEncoded(parsed, encoded) ==
    IF encoded.ok
    THEN [raised |-> FALSE, url |-> RequoteUri(Unparsed([parsed EXCEPT !.host = encoded.text]))]
    ELSE Raised({}, ErrInvalidLabel)

\* PreparedRequest.prepare_url for an address that is parsed: it must have
\* a scheme and a host
PrepareParsed(url, parsed) ==
    IF parsed.failed THEN Raised({}, ErrFailedToParse(url))
    ELSE IF parsed.scheme = <<>> THEN Raised({}, ErrMissingSchema(url))
    ELSE IF parsed.host = <<>> THEN Raised({}, ErrNoHost(url))
    ELSE IF ~IsAscii(parsed.host) THEN PrepareEncoded(parsed, IdnaEncodeUts46(parsed.host))
    ELSE IF parsed.host[1] \in Chars("*.") THEN Raised({}, ErrInvalidLabel)
    ELSE [raised |-> FALSE, url |-> RequoteUri(Unparsed(parsed))]

PrepareStripped(url) ==
    IF (\E i \in 1..Len(url) : url[i] = Ord[":"]) /\ ~StartsWith(Lower(url), Text("http"))
    THEN [raised |-> FALSE, url |-> url]
    ELSE PrepareParsed(url, ParseUrl(url))

\* PreparedRequest.prepare_url: leading white space is dropped; an address
\* that has a colon and does not start with "http" (in any case) is left as
\* it is; any other is parsed and rebuilt
PrepareUrl(url) == PrepareStripped(Lstrip(url))

\* the characters whose compatibility form (NFKC) has one of "/?#@:"
NfkcDelimiterRanges ==
    << <<8263,8265>>, <<8448,8449>>, <<8453,8454>>, <<10868,10868>>, <<65043,65043>>, <<65046,65046>>,
       <<65109,65110>>, <<65119,65119>>, <<65131,65131>>, <<65283,65283>>, <<65295,65295>>, <<65306,65306>>,
       <<65311,65312>> >>

\* urllib.parse.urlsplit: the address without its leading characters up to
\* U+0020 and without tab, line feed and carriage return
UrlsplitCleaned(url) ==
    SelectSeq(IF \A i \in 1..Len(url) : url[i] <= 32 THEN <<>>
              ELSE SubSeq(url, CHOOSE i \in 1..Len(url) :
                                    url[i] > 32 /\ \A j \in 1..(i - 1) : url[j] <= 32,
                          Len(url)),
              LAMBDA c : c \notin {9, 10, 13})

\* urlsplit: what follows the scheme, a letter followed by letters, digits,
\* "+", "-" and "."
UrlsplitRest(url) ==
    IF /\ Find(url, Chars(":")) > 1
       /\ url[1] \in AsciiLetters
       /\ \A i \in 1..(Find(url, Chars(":")) - 1) :
                url[i] \in AsciiLetters \cup Digits \cup Chars("+-.")
    THEN From(url, Find(url, Chars(":")))
    ELSE url

\* urlsplit: the network location
UrlsplitNetloc(rest) ==
    IF StartsWith(rest, Text("//")) THEN Before(From(rest, 2), Chars("/?#")) ELSE <<>>

\* the user name and the password urlsplit reads in a network location
\* "user:password@host"; there is none without "@" or without ":"
HasAuth(netloc) ==
    /\ LastAt(netloc) > 0
    /\ Find(UrlAuth(netloc), Chars(":")) > 0
AuthUsername(netloc) == Before(UrlAuth(netloc), Chars(":"))
AuthPassword(netloc) == From(UrlAuth(netloc), Find(UrlAuth(netloc), Chars(":")))

\* urllib.parse.unquote_to_bytes for a text of ASCII: the bytes, one for
\* each escape
RECURSIVE UnquoteToBytes(_)
UnquoteToBytes(s) ==
    IF s = <<>> THEN <<>>
    ELSE IF EscapeAt(s, 1)
    THEN <<16 * HexValue(s[2]) + HexValue(s[3])>> \o UnquoteToBytes(From(s, 3))
    ELSE <<s[1]>> \o UnquoteToBytes(Tail(s))

\* the bytes a character of UTF-8 has that starts with the byte: 0 when no
\* character starts with it
Utf8Length(byte) ==
    IF byte < 128 THEN 1
    ELSE IF 194 <= byte /\ byte <= 223 THEN 2
    ELSE IF 224 <= byte /\ byte <= 239 THEN 3
    ELSE IF 240 <= byte /\ byte <= 244 THEN 4
    ELSE 0

\* the k-th byte may follow the first byte of a character of UTF-8
Utf8Follows(first, k, byte) ==
    IF k = 2 /\ first = 224 THEN 160 <= byte /\ byte <= 191
    ELSE IF k = 2 /\ first = 237 THEN 128 <= byte /\ byte <= 159
    ELSE IF k = 2 /\ first = 240 THEN 144 <= byte /\ byte <= 191
    ELSE IF k = 2 /\ first = 244 THEN 128 <= byte /\ byte <= 143
    ELSE 128 <= byte /\ byte <= 191

\* the bytes at the head of b that belong to one character of UTF-8, whole
\* or cut short
Utf8Run(b) ==
    IF \A k \in 2..Utf8Length(b[1]) : k <= Len(b) /\ Utf8Follows(b[1], k, b[k])
    THEN Utf8Length(b[1])
    ELSE (CHOOSE k \in 2..Utf8Length(b[1]) :
            /\ ~(k <= Len(b) /\ Utf8Follows(b[1], k, b[k]))
            /\ \A j \in 2..(k - 1) : j <= Len(b) /\ Utf8Follows(b[1], j, b[j])) - 1

Utf8Char(b) ==
    IF Utf8Length(b[1]) = 1 THEN b[1]
    ELSE IF Utf8Length(b[1]) = 2 THEN (b[1] - 192) * 64 + (b[2] - 128)
    ELSE IF Utf8Length(b[1]) = 3
    THEN (b[1] - 224) * 4096 + (b[2] - 128) * 64 + (b[3] - 128)
    ELSE (b[1] - 240) * 262144 + (b[2] - 128) * 4096 + (b[3] - 128) * 64 + (b[4] - 128)

\* bytes.decode("utf-8", "replace"): U+FFFD REPLACEMENT CHARACTER stands for
\* the bytes that are no character
RECURSIVE Utf8Decode(_)
Utf8Decode(b) ==
    IF b = <<>> THEN <<>>
    ELSE IF Utf8Length(b[1]) = 0 THEN <<65533>> \o Utf8Decode(Tail(b))
    ELSE IF Utf8Run(b) = Utf8Length(b[1])
    THEN <<Utf8Char(b)>> \o Utf8Decode(From(b, Utf8Run(b)))
    ELSE <<65533>> \o Utf8Decode(From(b, Utf8Run(b)))

\* the characters of ASCII at the head of s
AsciiHead(s) ==
    IF \A i \in 1..Len(s) : s[i] < 128 THEN s
    ELSE SubSeq(s, 1, (CHOOSE i \in 1..Len(s) :
                            s[i] >= 128 /\ \A j \in 1..(i - 1) : s[j] < 128) - 1)

\* urllib.parse.unquote: the escapes of every run of ASCII are decoded
RECURSIVE Unquote(_)
Unquote(s) ==
    IF s = <<>> THEN <<>>
    ELSE IF s[1] >= 128 THEN <<s[1]>> \o Unquote(Tail(s))
    ELSE Utf8Decode(UnquoteToBytes(AsciiHead(s))) \o Unquote(From(s, Len(AsciiHead(s))))

\* str(n) for a natural number
RECURSIVE Decimal(_)
Decimal(n) == IF n < 10 THEN <<48 + n>> ELSE Decimal(n \div 10) \o <<48 + (n % 10)>>

\* the first character of s that Latin-1 does not have, and the last of the
\* characters that follow it without a break and that Latin-1 does not have
FirstBeyondLatin1(s) ==
    CHOOSE i \in 1..Len(s) : s[i] > 255 /\ \A j \in 1..(i - 1) : s[j] <= 255
LastBeyondLatin1(s, first) ==
    CHOOSE k \in first..Len(s) :
        /\ \A j \in first..k : s[j] > 255
        /\ k = Len(s) \/ s[k + 1] <= 255

StrCantEncode == Text("'latin-1' codec can't encode character")
StrInPosition == Text(" in position ")
StrOrdinal == Text(": ordinal not in range(256)")

\* str.encode("latin1") raises
ErrLatin1(s, first, last) ==
    [kind |-> "UnicodeEncodeError", base |-> "Exception",
     msg |-> StrCantEncode
             \o (IF first = last
                 THEN Text(" '") \o HexEscape(s[first]) \o Text("'") \o StrInPosition
                      \o Decimal(first - 1)
                 ELSE Text("s") \o StrInPosition \o Decimal(first - 1) \o Text("-")
                      \o Decimal(last - 1))
             \o StrOrdinal]

EncodesLatin1(s) == \A i \in 1..Len(s) : s[i] <= 255

\* _basic_auth_str: the user name, then the password, are encoded in
\* Latin-1
BasicAuth(prepared, username, password) ==
    IF ~EncodesLatin1(username)
    THEN Raised({}, ErrLatin1(username, FirstBeyondLatin1(username),
                              LastBeyondLatin1(username, FirstBeyondLatin1(username))))
    ELSE IF ~EncodesLatin1(password)
    THEN Raised({}, ErrLatin1(password, FirstBeyondLatin1(password),
                              LastBeyondLatin1(password, FirstBeyondLatin1(password))))
    ELSE prepared

\* urlsplit: netloc.partition("[")[2].partition("]")[0]
BracketedHost(netloc) ==
    Before(From(netloc, Find(netloc, Chars("["))), Chars("]"))

\* the pattern of an IPvFuture address: "v", hexadecimal digits, ".", and
\* at least one character, none a line feed
IsIpvFuture(hostname) ==
    /\ Find(hostname, Chars(".")) > 2
    /\ Find(hostname, Chars(".")) < Len(hostname)
    /\ \A i \in 2..(Find(hostname, Chars(".")) - 1) : hostname[i] \in HexDigits
    /\ \A i \in 1..Len(hostname) : hostname[i] # 10

\* ipaddress.IPv6Address: an IPv6 address, the scope after "%" not empty
\* and without "%"
IsScopedIpv6(hostname) ==
    /\ Ord["/"] \notin {hostname[i] : i \in 1..Len(hostname)}
    /\ IsIpv6(Before(hostname, Chars("%")), TRUE)
    /\ Find(hostname, Chars("%")) > 0 =>
            /\ Find(hostname, Chars("%")) < Len(hostname)
            /\ Find(From(hostname, Find(hostname, Chars("%"))), Chars("%")) = 0

\* _check_bracketed_host: the message of the ValueError, none (empty) for
\* an IPvFuture or IPv6 address
BracketedHostError(hostname) ==
    IF StartsWith(hostname, Text("v"))
    THEN IF IsIpvFuture(hostname) THEN <<>> ELSE StrIpvFuture
    ELSE IF IsIpv4(hostname, TRUE) THEN StrIpv4InBrackets
    ELSE IF IsScopedIpv6(hostname) THEN <<>>
    ELSE Repr(hostname) \o StrNotAnAddress

\* urlsplit: the message of the ValueError for the brackets of the network
\* location, none (empty) when they are in order
BracketsError(netloc) ==
    IF Find(netloc, Chars("[")) = 0 /\ Find(netloc, Chars("]")) = 0 THEN <<>>
    ELSE IF Find(netloc, Chars("[")) = 0 \/ Find(netloc, Chars("]")) = 0 THEN StrInvalidIpv6
    ELSE BracketedHostError(BracketedHost(netloc))

\* PreparedRequest.prepare_auth: get_auth_from_url splits the prepared
\* address, and a user name or a password it has makes the Authorization
\* header
PrepareAuth(prepared, netloc) ==
    IF BracketsError(netloc) # <<>> THEN Raised({}, ErrValue(BracketsError(netloc)))
    ELSE IF \E i \in 1..Len(netloc) : InRanges(netloc[i], NfkcDelimiterRanges)
    THEN Raised({}, ErrNetloc(netloc))
    ELSE IF HasAuth(netloc) /\ (AuthUsername(netloc) # <<>> \/ AuthPassword(netloc) # <<>>)
    THEN BasicAuth(prepared, Unquote(AuthUsername(netloc)), Unquote(AuthPassword(netloc)))
    ELSE prepared

\* PreparedRequest.prepare: prepare_url, then prepare_auth
Prepare(prepared) ==
    IF prepared.raised THEN prepared
    ELSE PrepareAuth(prepared, UrlsplitNetloc(UrlsplitRest(UrlsplitCleaned(prepared.url))))

StrHttp == Text("http")
HttpPrefixes == { Text("https://"), Text("http://") }

\* Session.get_adapter: the adapters are mounted on "https://" and "http://"
\* and are looked up in lower case
HasHttpScheme(url) == \E prefix \in HttpPrefixes : StartsWith(Lower(url), prefix)

\* Session.send: the request is sent and has the outcome, unless no adapter
\* is found for the prepared address
SendPrepared(prepared, outcome) ==
    IF prepared.raised THEN prepared
    ELSE IF HasHttpScheme(prepared.url) THEN outcome
    ELSE Raised({}, ErrInvalidSchema(prepared.url))

\* requests.get(url): the request is sent and has the outcome, or an
\* exception is raised before
RequestsGet(url, outcome) == SendPrepared(Prepare(PrepareUrl(url)), outcome)


ErrNoGet ==
    [kind |-> "AttributeError", base |-> "Exception", msg |-> Text("'list' object has no attribute 'get'")]
ErrKeyId ==
    [kind |-> "KeyError", base |-> "Exception", msg |-> Text("'id'")]


\* the request for the address reaches the server
Sent(url) == ~RequestsGet(url, [raised |-> FALSE]).raised

\* f"{self.base_url}/v1/models"
ModelsUrl(base_url) == base_url \o Text("/v1/models")

\* the try block of test_connection once requests.get has returned the
\* response or raised: what the block returns, or the exception it ends with
TestConnectionResponse(response) ==
    IF response.raised THEN response
    ELSE IF response.status_code = 200
    THEN IF ~response.body.json THEN Raised({}, ReqJSONError)
         ELSE IF ~response.body.object THEN Raised({}, ErrNoGet)
         ELSE LET data == DictGet(response.body.value, "data", <<>>) IN
              IF Len(data) > 0
              THEN IF \A i \in 1..Len(data) : "id" \in DOMAIN data[i]
                   THEN [raised |-> FALSE,
                         status |-> MarkOk \o Text(" Connected to LMStudio"),
                         models |-> [i \in 1..Len(data) |-> data[i].id]]
                   ELSE Raised({}, ErrKeyId)
              ELSE [raised |-> FALSE,
                    status |-> MarkWarn \o Text(" Connected but no models loaded"),
                    models |-> FallbackModels]
    ELSE [raised |-> FALSE,
          status |-> MarkFail \o Text(" LMStudio API error"),
          models |-> FallbackModels]

\* the try block of test_connection
TestConnectionTry(base_url, outcome) ==
    TestConnectionResponse(RequestsGet(ModelsUrl(base_url), outcome))

\* the except clauses of test_connection, for what the try block did
TestConnectionExcept(t) ==
    IF ~t.raised THEN t
    ELSE IF "ConnectionError" \in t.classes
    THEN [raised |-> FALSE, status |-> MarkFail \o Text(" Cannot connect to LMStudio"),
          models |-> FallbackModels]
    ELSE IF "Timeout" \in t.classes
    THEN [raised |-> FALSE, status |-> MarkFail \o Text(" Connection timeout"),
          models |-> FallbackModels]
    ELSE IF t.error.base = "Exception"
    THEN [raised |-> FALSE, status |-> MarkFail \o Text(" Error: ") \o t.error.msg,
          models |-> FallbackModels]
    ELSE t

\* ConnectionManager.test_connection: the try block and its except clauses
TestConnection(base_url, outcome) == TestConnectionExcept(TestConnectionTry(base_url, outcome))

\* is_connected, for what test_connection did: the mark is looked for in the
\* status
IsConnectedStatus(t) ==
    IF t.raised THEN t ELSE [raised |-> FALSE, value |-> IsSubstring(MarkOk, t.status)]

\* ConnectionManager.is_connected
IsConnectedResult(base_url, outcome) == IsConnectedStatus(TestConnection(base_url, outcome))

\* test_connection for every address and every answer of the model,
\* computed once
ConnectionTests ==
    [base_url \in BaseUrls, outcome \in ModelsOutcomes |-> TestConnection(base_url, outcome)]

\* the addresses of the model whose request reaches the server
SentBaseUrls == {base_url \in BaseUrls : Sent(ModelsUrl(base_url))}

\* validate_temperature
ValidateTemperature(t) == IF t < 0 THEN 0 ELSE IF t > 20 THEN 20 ELSE t

\* the model the select box shows when the user does not touch it
CurrentModel(ss) ==
    IF \E i \in 1..Len(ss["available_models"]) : ss["available_models"][i] = ss["model"]
    THEN ss["model"]
    ELSE ss["available_models"][1]

Assign(ss, k, v) == [j \in (DOMAIN ss) \cup {k} |-> IF j = k THEN v ELSE ss[j]]

\* render_connection_settings, render_model_settings, render_system_settings:
\* every widget stores its value in the session; w holds the values the
\* user has given to widgets in this run of the script
RenderWidgets(ss, w) ==
    [k \in DOMAIN ss |->
        IF k \in DOMAIN w THEN w[k]
        ELSE IF k = "model" THEN CurrentModel(ss)
        ELSE IF k = "temperature" THEN ValidateTemperature(ss[k])
        ELSE ss[k]]

\* a run of the script follows one action of the user: at most one widget
\* has a new value
WidgetInputs(ss) ==
    {EmptyMap}
    \cup {[k \in {"base_url"} |-> u] : u \in BaseUrls}
    \cup {[k \in {"model"} |-> ss["available_models"][i]] : i \in 1..Len(ss["available_models"])}
    \cup {[k \in {"temperature"} |-> t] : t \in Temperatures}
    \cup {[k \in {"system_message"} |-> m] : m \in SystemMessages}
    \cup {[k \in {"enable_streaming"} |-> b] : b \in BOOLEAN}

\* SessionStateManager.initialize, called at the start of a run of the page
Initialize ==
    /\ ui_pc = "idle"
    /\ script_runs < MaxScriptRuns
    /\ session_state' = SessionInitialize(session_state)
    /\ ui_pc' = "sidebar"
    /\ script_runs' = script_runs + 1
    /\ UNCHANGED <<conn_test, request, pipelineVars, reports, appVars>>

\* the user touches only the system message and the streaming box
TalkInputs ==
    {EmptyMap}
    \cup {[k \in {"system_message"} |-> m] : m \in SystemMessages}
    \cup {[k \in {"enable_streaming"} |-> b] : b \in BOOLEAN}

\* SidebarComponents.render_all when no button is pressed; `inputs` are the
\* widget values the user may have given
RenderSidebarWith(inputs) ==
    /\ ui_pc = "sidebar"
    /\ \E w \in inputs :
        session_state' = RenderWidgets(session_state, w)
    /\ ui_pc' = "chatbot"
    /\ UNCHANGED <<script_runs, conn_test, request, pipelineVars, reports, appVars>>

RenderSidebar == RenderSidebarWith(WidgetInputs(session_state))

RenderSidebarTalk == RenderSidebarWith(TalkInputs)

\* _test_connection: the status and the models test_connection returned
\* are stored in the session
SidebarTested(base_url, outcome, t) ==
    /\ conn_test' = [op |-> "test_connection", base_url |-> base_url,
                     outcome |-> outcome, result |-> t]
    /\ session_state' =
            IF t.raised THEN session_state
            ELSE Assign(Assign(session_state, "connection_status", t.status),
                        "available_models", t.models)

\* SidebarComponents.render_all when "Test Connection" is pressed:
\* _test_connection, which ends the run with st.rerun()
SidebarTestConnection ==
    /\ ui_pc = "sidebar"
    /\ \E outcome \in ModelsOutcomes :
        SidebarTested(session_state["base_url"], outcome,
                      ConnectionTests[session_state["base_url"], outcome])
    /\ ui_pc' = "idle"
    /\ UNCHANGED <<script_runs, request, pipelineVars, reports, appVars>>

\* SidebarComponents.render_all when "Clear Chat" is pressed:
\* SessionStateManager.clear_chat, then st.rerun()
ClearChat ==
    /\ ui_pc = "sidebar"
    /\ session_state' = Assign(RenderWidgets(session_state, EmptyMap), "messages", <<>>)
    /\ ui_pc' = "idle"
    /\ UNCHANGED <<script_runs, conn_test, request, pipelineVars, reports, appVars>>

\* ChatInterface.initialize_chatbot, then ChatDisplay.render_chat_history
InitializeChatbot ==
    /\ ui_pc = "chatbot"
    /\ LET config == GetConfig(session_state) IN
       IF "chatbot_instance" \notin DOMAIN session_state
       THEN session_state' =
                Assign(session_state, "chatbot_instance", ChatbotCore(config, session_state))
       ELSE LET chatbot == session_state["chatbot_instance"] IN
            IF LastConfigDiffers(chatbot, config)
            THEN session_state' =
                    Assign(session_state, "chatbot_instance",
                           SetLastConfig(UpdateConfig(chatbot, config, session_state), config))
            ELSE UNCHANGED session_state
    /\ ui_pc' = "input"
    /\ UNCHANGED <<script_runs, conn_test, request, pipelineVars, reports, appVars>>

\* ConnectionManager.__init__: self.base_url = base_url or
\* lmstudio_config.base_url
ConnectionManagerInit(base_url) ==
    [base_url |-> IF base_url = <<>> THEN DefaultBaseUrl ELSE base_url]

\* ConnectionManager(base_url).is_connected(); the address may be empty
IsConnected ==
    /\ ui_pc = "idle"
    /\ script_runs > 0
    /\ \E base_url \in BaseUrls \cup {<<>>}, outcome \in ModelsOutcomes :
        conn_test' = [op |-> "is_connected",
                      base_url |-> ConnectionManagerInit(base_url).base_url,
                      outcome |-> outcome,
                      result |-> IsConnectedStatus(
                                    ConnectionTests[ConnectionManagerInit(base_url).base_url, outcome])]
    /\ UNCHANGED <<session_state, ui_pc, script_runs, request, pipelineVars, reports, appVars>>

\* what the model may do with a call of the chain: the chunks of its answer
\* (their concatenation is the answer), and the exception that ends the
\* call, if any; a stream may fail after some chunks
ChainOutcomes ==
    { [chunks |-> << Text("hel"), Text("lo") >>, error |-> NoError],
      [chunks |-> <<>>, error |-> ErrConnection],
      [chunks |-> << Text("hel") >>, error |-> ErrOther] }

\* a call of the chain during which the user stops the script or touches a
\* widget: Streamlit serves the request at the next write to an element,
\* which for a stream is the container.markdown of on_llm_new_token for the
\* next token, and the exception leaves chain.stream
StoppedStreams ==
    UNION { { [chunks |-> SubSeq(o.chunks, 1, k), error |-> ErrStop] :
                k \in 0..(Len(o.chunks) - 1) } : o \in ChainOutcomes }

\* what the user may type in the chat input
UserPrompts == {Text("hi"), Text("why")}

\* get_example_prompts: the prompts of the three buttons
ExamplePromptTexts ==
    { Text("Explain quantum computing in simple terms"),
      Text("Write a Python function to calculate factorial"),
      Text("Help me plan a 7-day trip to Japan") }

Turn(role, content) == [role |-> role, content |-> content]

\* memory.chat_memory.add_user_message(user_input), then add_ai_message(response)
WithTurns(cb, user_input, response) ==
    [cb EXCEPT !.memory = @ \o << [type |-> "human", content |-> user_input],
                                  [type |-> "ai", content |-> response] >>]

\* ChatbotCore.clear_memory
ClearMemory(cb) == [cb EXCEPT !.memory = <<>>]

\* the text the chain returns for an answer
RECURSIVE Joined(_)
Joined(chunks) == IF chunks = <<>> THEN <<>> ELSE Head(chunks) \o Joined(Tail(chunks))

\* what the chain is invoked with: the input, and the messages of the memory
\* as chat_history
ChainInput(cb, user_input) == [input |-> user_input, chat_history |-> cb.memory]

\* ChatbotCore.get_response: the chatbot after the call, and what the call
\* returned, or that an exception left it
GetResponseRemembersInput(cb, user_input, o) ==
    IF o.error = NoError
    THEN [chatbot |-> WithTurns(cb, user_input, Joined(o.chunks)),
          returned |-> Joined(o.chunks), raised |-> FALSE]
    ELSE IF Catches(o.error)
    THEN [chatbot |-> [cb EXCEPT !.memory = Append(@, [type |-> "human", content |-> user_input])],
          returned |-> format_error_message(o.error), raised |-> FALSE]
    ELSE [chatbot |-> cb, returned |-> <<>>, raised |-> TRUE]
GetResponse(cb, user_input, o) ==
    IF o.error = NoError
    THEN [chatbot |-> WithTurns(cb, user_input, Joined(o.chunks)),
          returned |-> Joined(o.chunks), raised |-> FALSE]
    ELSE IF Catches(o.error)
    THEN [chatbot |-> cb, returned |-> format_error_message(o.error), raised |-> FALSE]
    ELSE [chatbot |-> cb, returned |-> <<>>, raised |-> TRUE]

\* the loop of get_streaming_response: full_response after the chunks
RECURSIVE StreamInto(_, _)
StreamInto(full_response, chunks) ==
    IF chunks = <<>> THEN full_response
    ELSE StreamInto(full_response \o Head(chunks), Tail(chunks))

\* ChatbotCore.get_streaming_response
GetStreamingResponse(cb, user_input, o) ==
    LET full_response == StreamInto(<<>>, o.chunks) IN
    IF o.error = NoError
    THEN [chatbot |-> WithTurns(cb, user_input, full_response),
          returned |-> full_response, raised |-> FALSE]
    ELSE IF Catches(o.error)
    THEN [chatbot |-> cb, returned |-> format_error_message(o.error), raised |-> FALSE]
    ELSE [chatbot |-> cb, returned |-> <<>>, raised |-> TRUE]

\* st.session_state.messages.append({"role": "assistant", "content": response})
\* after the chatbot returned
AnsweredUnlessError(asked, res) ==
    IF res.raised \/ StartsWith(res.returned, StrError) THEN asked
    ELSE Append(asked, Turn("assistant", res.returned))
Answered(asked, res) ==
    IF res.raised THEN asked ELSE Append(asked, Turn("assistant", res.returned))

\* the first statement of handle_user_input and of _handle_example_prompt:
\* the user turn is appended; the call the handler then makes is in flight
Ask(source, prompt) ==
    LET cb == session_state["chatbot_instance"] IN
    /\ session_state' =
            Assign(session_state, "messages",
                   Append(session_state["messages"], Turn("user", prompt)))
    /\ request' = [phase |-> "pending",
                   method |-> IF session_state["enable_streaming"]
                              THEN "get_streaming_response" ELSE "get_response",
                   source |-> source,
                   sent |-> ChainInput(cb, prompt)]

\* the call of the chatbot: what the method named in the request does with
\* the outcome o of the call of the chain
CallChatbot(o) ==
    LET cb == session_state["chatbot_instance"] IN
    IF request.method = "get_streaming_response"
    THEN GetStreamingResponse(cb, request.sent.input, o)
    ELSE GetResponse(cb, request.sent.input, o)

\* the request once the call has ended
Ended(o, res, stopped) ==
    [phase |-> "done", method |-> request.method, source |-> request.source,
     sent |-> request.sent, called |-> TRUE, outcome |-> o,
     returned |-> res.returned, raised |-> res.raised, stopped |-> stopped]

\* the request when the run has ended before the chatbot was called
NotCalled ==
    [phase |-> "done", method |-> request.method, source |-> request.source,
     sent |-> request.sent, called |-> FALSE,
     outcome |-> [chunks |-> <<>>, error |-> ErrStop],
     returned |-> <<>>, raised |-> TRUE, stopped |-> TRUE]

\* ChatInterface.render when the user has sent a message: handle_user_input
\* up to the call of the chatbot
HandleUserInput ==
    /\ ui_pc = "input"
    /\ \E prompt \in UserPrompts : Ask("input", prompt)
    /\ ui_pc' = "call"
    /\ UNCHANGED <<script_runs, conn_test, pipelineVars, reports, appVars>>

\* ExamplePrompts.render when a button is pressed: _handle_example_prompt up
\* to the call of the chatbot
ExamplePrompt ==
    /\ ui_pc = "input"
    /\ Len(session_state["messages"]) = 0
    /\ \E prompt \in ExamplePromptTexts : Ask("example", prompt)
    /\ ui_pc' = "call"
    /\ UNCHANGED <<script_runs, conn_test, pipelineVars, reports, appVars>>

\* the rest of the handler when the user lets the run go on: the chatbot
\* returns, the assistant turn is appended, and the run ends (with st.rerun()
\* after an example)
Respond ==
    /\ ui_pc = "call"
    /\ \E o \in ChainOutcomes :
        LET res == CallChatbot(o) IN
        /\ request' = Ended(o, res, FALSE)
        /\ session_state' =
            Assign(Assign(session_state, "chatbot_instance", res.chatbot), "messages",
                   Answered(session_state["messages"], res))
    /\ ui_pc' = "idle"
    /\ UNCHANGED <<script_runs, conn_test, pipelineVars, reports, appVars>>

\* the user stops the script during a stream that has a token to come: the
\* exception of the callback passes `except Exception`, leaves
\* get_streaming_response and the handler, and ends the run
StopStream ==
    /\ ui_pc = "call"
    /\ request.method = "get_streaming_response"
    /\ \E o \in StoppedStreams :
        LET res == CallChatbot(o) IN
        /\ request' = Ended(o, res, TRUE)
        /\ session_state' = Assign(session_state, "chatbot_instance", res.chatbot)
    /\ ui_pc' = "idle"
    /\ UNCHANGED <<script_runs, conn_test, pipelineVars, reports, appVars>>

\* the user has stopped the script, or touched a widget, when the handler
\* starts: the user turn is appended, and the first write of the handler to
\* an element (st.chat_message in handle_user_input; st.empty or the
\* placeholder of st.spinner in _handle_example_prompt) ends the run before
\* the chatbot is called
StopBeforeCall ==
    /\ ui_pc = "call"
    /\ request' = NotCalled
    /\ ui_pc' = "idle"
    /\ UNCHANGED <<session_state, script_runs, conn_test, pipelineVars, reports, appVars>>

\* the user stops the script during chain.invoke, in either handler:
\* get_response returns, and st.spinner, which empties its placeholder when
\* its block is left, ends the run before the assistant turn is appended
StopDisplay ==
    /\ ui_pc = "call"
    /\ request.method = "get_response"
    /\ \E o \in ChainOutcomes :
        LET res == CallChatbot(o) IN
        /\ request' = Ended(o, res, TRUE)
        /\ session_state' = Assign(session_state, "chatbot_instance", res.chatbot)
    /\ ui_pc' = "idle"
    /\ UNCHANGED <<script_runs, conn_test, pipelineVars, reports, appVars>>

\* a caller of ChatbotCore.clear_memory; no code of the pages calls it
ClearMemoryCall ==
    /\ ui_pc = "idle"
    /\ "chatbot_instance" \in DOMAIN session_state
    /\ session_state' =
            Assign(session_state, "chatbot_instance",
                   ClearMemory(session_state["chatbot_instance"]))
    /\ UNCHANGED <<ui_pc, script_runs, conn_test, request, pipelineVars, reports, appVars>>

\* ChatInterface.render when the user has sent nothing and pressed no button
EndRun ==
    /\ ui_pc = "input"
    /\ ui_pc' = "idle"
    /\ UNCHANGED <<session_state, script_runs, conn_test, request, pipelineVars, reports, appVars>>

\* the session as the chat page finds it, with any of the keys set
InitSessionState ==
    /\ InitRuns
    /\ oracle = FreeOracle
    /\ active = {}
    /\ session_state \in PriorSessions
    /\ ui_pc = "idle"
    /\ script_runs = 0
    /\ conn_test = None
    /\ request = None
    /\ app_messages = <<>>
    /\ app_pc = "idle"

NextSessionState == Initialize \/ ClearChat

\* runs of the page that end in the sidebar
SpecSessionState == InitSessionState /\ [][NextSessionState]_vars

\* a new session, or the session of an earlier visit
InitChat ==
    /\ InitRuns
    /\ oracle = FreeOracle
    /\ active = {}
    /\ session_state \in {EmptyMap, PriorSession}
    /\ ui_pc = "idle"
    /\ script_runs = 0
    /\ conn_test = None
    /\ request = None
    /\ app_messages = <<>>
    /\ app_pc = "idle"

NextChat ==
    \/ Initialize
    \/ RenderSidebar
    \/ SidebarTestConnection
    \/ ClearChat
    \/ InitializeChatbot
    \/ EndRun
    \/ IsConnected

\* runs of the chat page in which the user changes settings and tests the
\* connection
SpecChat == InitChat /\ [][NextChat]_vars

NextConversation ==
    \/ Initialize
    \/ RenderSidebarTalk
    \/ ClearChat
    \/ InitializeChatbot
    \/ HandleUserInput
    \/ ExamplePrompt
    \/ Respond
    \/ EndRun

\* runs of the chat page in which the user talks to the chatbot and lets
\* every call complete
SpecConversation == InitChat /\ [][NextConversation]_vars

NextTalk ==
    \/ Initialize
    \/ RenderSidebarTalk
    \/ InitializeChatbot
    \/ HandleUserInput
    \/ ExamplePrompt
    \/ Respond
    \/ StopBeforeCall
    \/ StopStream
    \/ StopDisplay
    \/ EndRun

\* the runs in which "Clear Chat" is never pressed and the user may stop the
\* script, or touch a widget, during a call
SpecTalk == InitChat /\ [][NextTalk]_vars

NextCore == NextTalk \/ ClearMemoryCall

\* the same runs with a caller of clear_memory between them
SpecCore == InitChat /\ [][NextCore]_vars

\* app.py: the options of the requests.post of LMStudioLLM._generate and of
\* ChatbotApp.get_response (timeouts in seconds)
AppGenerateRequest == [stream |-> FALSE, timeout |-> 30]
AppGetResponseRequest == [stream |-> FALSE, timeout |-> 60]

----------------------------------------------------------------------------
(* The chat of app.py: main *)

\* what ChatbotApp.get_response returns: the content of the answer, or the
\* text of one of its handlers
AppReplies ==
    { Text("hello") } \cup { AppErrorText(f, MsgCannotConnect) : f \in RequestsFailures }

\* the prompts of the three buttons of app.py
AppExamplePrompts ==
    { Text("Explain quantum computing"),
      Text("Write a Python function to calculate factorial"),
      Text("Help me plan a 7-day trip to Japan") }

\* a run of main in which the user has sent a message: the user turn is
\* appended and get_response is called
AppChatInput ==
    /\ app_pc = "idle"
    /\ Len(app_messages) + 2 <= MaxAppMessages
    /\ \E prompt \in UserPrompts :
        app_messages' = Append(app_messages, Turn("user", prompt))
    /\ app_pc' = "call"
    /\ UNCHANGED <<pipelineVars, reports, chatVars>>

\* get_response returns, the response is shown, and the assistant turn is
\* appended
AppRespond ==
    /\ app_pc = "call"
    /\ \E response \in AppReplies :
        app_messages' = Append(app_messages, Turn("assistant", response))
    /\ app_pc' = "idle"
    /\ UNCHANGED <<pipelineVars, reports, chatVars>>

\* the user stops the script, or touches a widget, before or during the
\* request: a write to an element (st.chat_message or st.spinner before
\* get_response is called; st.spinner, which empties its placeholder, once
\* it has returned) ends the run before the assistant turn is appended
AppStopDisplay ==
    /\ app_pc = "call"
    /\ app_pc' = "idle"
    /\ UNCHANGED <<app_messages, pipelineVars, reports, chatVars>>

\* a run of main in which the user presses the button of an example: the
\* user turn is appended and st.rerun() ends the run
AppExampleClick ==
    /\ app_pc = "idle"
    /\ Len(app_messages) = 0
    /\ \E prompt \in AppExamplePrompts :
        app_messages' = Append(app_messages, Turn("user", prompt))
    /\ app_pc' = "rerun"
    /\ UNCHANGED <<pipelineVars, reports, chatVars>>

\* the run of main that st.rerun() asked for: st.chat_input returns None,
\* the history is displayed, and the buttons are shown if it is empty
AppRerun ==
    /\ app_pc = "rerun"
    /\ app_pc' = "idle"
    /\ UNCHANGED <<app_messages, pipelineVars, reports, chatVars>>

\* a run of main in which the user presses "Clear Chat" in the sidebar
\* (sidebar_settings): the history is emptied and st.rerun() ends the run
AppClearChat ==
    /\ app_pc = "idle"
    /\ app_messages' = <<>>
    /\ app_pc' = "rerun"
    /\ UNCHANGED <<pipelineVars, reports, chatVars>>

\* a run of main in which the user presses "Test Connection" in the sidebar
\* (sidebar_settings): ChatbotApp() is built, which tests the connection, and
\* st.rerun() ends the run; the history is kept
AppTestConnection ==
    /\ app_pc = "idle"
    /\ app_pc' = "rerun"
    /\ UNCHANGED <<app_messages, pipelineVars, reports, chatVars>>

NextApp ==
    \/ AppChatInput
    \/ AppRespond
    \/ AppStopDisplay
    \/ AppExampleClick
    \/ AppTestConnection
    \/ AppClearChat
    \/ AppRerun

\* the chat of app.py; the request of get_response ends (it has a timeout)
\* and the script goes on, Streamlit runs the script again when st.rerun()
\* has asked for it, and the user acts when they like
SpecApp ==
    Init /\ [][NextApp]_vars /\ WF_vars(AppRespond \/ AppStopDisplay) /\ WF_vars(AppRerun)

----------------------------------------------------------------------------
(* Properties of run_pipeline *)

Returned(r) == pc[r] = "done"

\* the run has issued a call that failed
HasFailedCall(r) == \E i \in 1..Len(calls[r]) : calls[r][i].outcome.status = "error"

\* the step whose oracle call failed in run r
FailedStep(r) == calls[r][CHOOSE i \in 1..Len(calls[r]) : calls[r][i].outcome.status = "error"].step

\* all four calls of run r were issued and answered
AllSucceeded(r) ==
    /\ Len(calls[r]) = NumSteps
    /\ \A i \in 1..NumSteps : calls[r][i].outcome.status = "ok"

\* C1: once the oracle call of a step has failed, the run issues no further
\* oracle call: its list of calls never changes again.
C1_ShortCircuit ==
    [][\A r \in Runs : HasFailedCall(r) => calls'[r] = calls[r]]_vars

\* the summary step failed after the blog step succeeded, and the run is over
C1_Witness ==
    \E r \in Runs :
        /\ Returned(r)
        /\ Len(calls[r]) = 2
        /\ calls[r][1].outcome.status = "ok"
        /\ calls[r][2].outcome.status = "error"

\* C2: the result returned after an oracle failure tells which step failed:
\* two runs whose calls failed at different steps return different results.
C2_FailureIdentifiesStep ==
    \A r1, r2 \in Runs :
        (/\ Returned(r1) /\ HasFailedCall(r1)
         /\ Returned(r2) /\ HasFailedCall(r2)
         /\ FailedStep(r1) # FailedStep(r2))
        => ret[r1] # ret[r2]

\* C3: when all four oracle calls succeeded, the run has returned a mapping
\* with exactly the four output keys, each holding the text the oracle
\* returned for that step.
C3_SuccessResult ==
    \A r \in Runs :
        AllSucceeded(r) =>
            /\ Returned(r)
            /\ DOMAIN ret[r] = OutputKeys
            /\ \A k \in 0..(NumSteps - 1) :
                ret[r][ResultKeys[k + 1]] = calls[r][k + 1].outcome.text

\* a run succeeded with four different-looking outputs among them
C3_Witness ==
    \E r \in Runs :
        /\ AllSucceeded(r)
        /\ calls[r][1].outcome.text # calls[r][2].outcome.text
        /\ calls[r][3].outcome.text # calls[r][4].outcome.text

\* C4: the i-th call of a run is the call of the i-th declared step (blog,
\* summary, keywords, social), every call but the last has returned, and a
\* call is unanswered only while the run waits for it.
C4_StrictlySequential ==
    \A r \in Runs :
        /\ \A i \in 1..Len(calls[r]) :
            /\ calls[r][i].step = i - 1
            /\ StepOfPrompt(calls[r][i].prompt) = i - 1
            /\ (i < Len(calls[r]) => calls[r][i].outcome.status # "pending")
        /\ Cardinality({i \in 1..Len(calls[r]) : calls[r][i].outcome.status = "pending"})
              = (IF pc[r] = "wait" THEN 1 ELSE 0)

\* the fourth call is in flight after three answered ones
C4_Witness ==
    \E r \in Runs :
        /\ pc[r] = "wait"
        /\ Len(calls[r]) = NumSteps
        /\ calls[r][NumSteps].outcome.status = "pending"

\* C5: the blog_post handed to steps 2, 3 and 4 is the text step 1 returned
\* in this run, the summary handed to step 4 is the text step 2 returned,
\* and the prompt rendered for step 4 contains that summary text.
C5_DependentOutputs ==
    \A r \in Runs :
        \A i \in 2..Len(calls[r]) :
            /\ calls[r][i].inputs["blog_post"] = calls[r][1].outcome.text
            /\ (i = 4) =>
                /\ calls[r][4].inputs["summary"] = calls[r][2].outcome.text
                /\ Contains(calls[r][4].prompt, calls[r][2].outcome.text)

\* the social step was called with a summary other than the blog post and
\* the keywords
C5_Witness ==
    \E r \in Runs :
        /\ Len(calls[r]) = NumSteps
        /\ calls[r][2].outcome.text # calls[r][1].outcome.text
        /\ calls[r][2].outcome.text # calls[r][3].outcome.text

\* C6: no exception leaves run_pipeline: a run in which an oracle call or a
\* status update raised has returned a mapping with the error in it.
C6_NeverRaises ==
    \A r \in Runs :
        /\ pc[r] # "raised"
        /\ exc[r] # NoExc =>
            /\ Returned(r)
            /\ "error" \in DOMAIN ret[r]
            /\ ret[r]["error"] = format_error_message(exc[r].error)

\* the keywords call raised an exception that is not a connection error,
\* and the run returned
C6_Witness ==
    \E r \in Runs :
        /\ Returned(r)
        /\ exc[r].origin = "oracle"
        /\ exc[r].step = 2
        /\ exc[r].error = ErrOther

\* C7: a returned mapping holds either the error and no output, or the four
\* outputs and no error.
C7_NoPartialSuccess ==
    \A r \in Runs :
        Returned(r) =>
            \/ DOMAIN ret[r] = {"error"}
            \/ DOMAIN ret[r] = OutputKeys

\* a run failed at its last step, with three outputs already computed
C7_Witness ==
    \E r \in Runs :
        /\ Returned(r)
        /\ Len(calls[r]) = NumSteps
        /\ calls[r][NumSteps].outcome.status = "error"
        /\ DOMAIN result[Frame(r)] = {"blog_post", "summary", "keywords"}

\* C8: no step is called twice, no step is called unless all earlier calls
\* succeeded, and a finished run has made 4 calls on success and k+1 calls
\* when the call of step k failed.
C8_NoRetryNoSkip ==
    \A r \in Runs :
        /\ \A i, j \in 1..Len(calls[r]) : calls[r][i].step = calls[r][j].step => i = j
        /\ \A i \in 1..Len(calls[r]) :
            \A j \in 1..(i - 1) : calls[r][j].outcome.status = "ok"
        /\ \A i \in 1..Len(calls[r]) :
            {calls[r][j].step : j \in 1..i} = 0..(calls[r][i].step)
        /\ (Returned(r) /\ "error" \notin DOMAIN ret[r]) => Len(calls[r]) = NumSteps
        /\ (Returned(r) /\ HasFailedCall(r)) => Len(calls[r]) = FailedStep(r) + 1

\* a run failed at step 2 having made three calls
C8_Witness ==
    \E r \in Runs :
        /\ Returned(r)
        /\ HasFailedCall(r)
        /\ FailedStep(r) = 2
        /\ Len(calls[r]) = 3

\* the texts the oracle returned to run r for the step stored under key
OwnTexts(r, key) ==
    {calls[r][j].outcome.text :
        j \in {i \in 1..Len(calls[r]) :
                 calls[r][i].outcome.status = "ok" /\ ResultKeys[calls[r][i].step + 1] = key}}

\* C9: every value a run hands to a later step, and every value it returns,
\* is a text the oracle returned to a call of that same run.
C9_RunsIsolated ==
    \A r \in Runs :
        /\ \A i \in 2..Len(calls[r]) :
            \A key \in DOMAIN calls[r][i].inputs :
                calls[r][i].inputs[key] \in OwnTexts(r, key)
        /\ (Returned(r) /\ "error" \notin DOMAIN ret[r]) =>
            \A key \in DOMAIN ret[r] : ret[r][key] \in OwnTexts(r, key)

\* two runs on different topics are past their first step together, each
\* holding a blog post the other does not have
C9_Witness ==
    \E r1, r2 \in Runs :
        /\ r1 # r2
        /\ pc[r1] = "wait" /\ step[r1] = 3
        /\ pc[r2] = "wait" /\ step[r2] = 1
        /\ args[r1].topic # args[r2].topic
        /\ calls[r1][1].outcome.text # calls[r2][1].outcome.text

\* two finished runs of pipelines built alike, with the same topic, tone and
\* length, against a stub oracle (a pure function of the rendered prompt)
SameCalls(r1, r2) ==
    /\ oracle.kind = "stub"
    /\ Returned(r1) /\ Returned(r2)
    /\ pipeline[r1] = pipeline[r2]
    /\ args[r1].topic = args[r2].topic
    /\ args[r1].tone = args[r2].tone
    /\ args[r1].length = args[r2].length

\* a write to the status text or to the progress bar raised in the run
SinkFailed(r) == exc[r].origin = "sink"

C11_PipelineUnchanged ==
    [][\A r \in Runs : pc[r] # "idle" => pipeline'[r] = pipeline[r]]_vars

\* a run on a built pipeline has stored four outputs and returned
C11_Witness ==
    \E r \in Runs :
        /\ Returned(r)
        /\ AllSucceeded(r)
        /\ DOMAIN result[Frame(r)] = OutputKeys
        /\ pipeline[r] = ContentPipeline(LMStudioSession)

\* the status texts that announce the start of a step
StartTexts == {StepStatusText[i] : i \in 1..NumSteps}

\* the place in the log of run r of the last write that announces step i
StartedAt(r, i) ==
    CHOOSE p \in 1..Len(sinkLog[r]) :
        /\ sinkLog[r][p] = ProgressEvent(StepProgress[i])
        /\ p > 1
        /\ sinkLog[r][p - 1] = StatusEvent(StepStatusText[i])

\* after the announcement of step i the log holds a further status text
\* that is not the announcement of a step
NotifiedAfterStart(r, i) ==
    \E q \in (StartedAt(r, i) + 1)..Len(sinkLog[r]) :
        /\ sinkLog[r][q].kind = "text"
        /\ sinkLog[r][q].text \notin StartTexts
        /\ \A q2 \in (StartedAt(r, i) + 1)..q : sinkLog[r][q2].text \notin StartTexts

\* C12: with a status text and a progress bar supplied, every oracle call of
\* a run is preceded by the notification that its step started, and by the
\* time the run has gone on to the next call or has ended, a notification of
\* the call's outcome (completed, or failed) has followed it, before any
\* notification of a later step.
C12_PerStepNotifications ==
    \A r \in Runs :
        (pc[r] # "idle" /\ args[r].status_text /\ args[r].progress_bar) =>
            \A i \in 1..Len(calls[r]) :
                /\ \E p \in 2..Len(sinkLog[r]) :
                       /\ sinkLog[r][p] = ProgressEvent(StepProgress[i])
                       /\ sinkLog[r][p - 1] = StatusEvent(StepStatusText[i])
                /\ (calls[r][i].outcome.status # "pending" /\ (i < Len(calls[r]) \/ Returned(r)))
                       => NotifiedAfterStart(r, i)

\* the placeholders a template refers to
Placeholders(prompt) ==
    {prompt.template[i][2] : i \in {j \in 1..Len(prompt.template) : prompt.template[j][1] = "var"}}

\* C13: in each of the four chains of a built pipeline, the placeholders of
\* the template are exactly the declared input variables.
C13_TemplateConsistency ==
    \A r \in Runs :
        pipeline[r] # None =>
            \A i \in 1..NumSteps :
                Placeholders(pipeline[r].chains[i].prompt)
                    = SeqToSet(pipeline[r].chains[i].prompt.input_variables)

\* C17: when the user has stopped the script during an oracle call, that call
\* gets no answer, no later call is issued, and the run returns a failure
\* that is not the report of an oracle error.
C17_Cancellation ==
    \A r \in Runs :
        (stop[r] > 0 /\ pc[r] # "wait") =>
            /\ calls[r][stop[r]].outcome.status = "pending"
            /\ Len(calls[r]) = stop[r]
            /\ Returned(r)
            /\ "error" \in DOMAIN ret[r]
            /\ ret[r]["error"] \notin {format_error_message(e) : e \in OracleErrors}

\* the kind of failure a returned text reports: each kind but the last has
\* texts of its own
ReportedKind(text) ==
    IF text \in {MsgCannotConnect, MsgCannotConnectGenerate} THEN "connection"
    ELSE IF text = MsgTimedOut THEN "timeout"
    ELSE IF text \in {MsgModelNotFound, MsgAuthFailed} THEN "api"
    ELSE IF StartsWith(text, StrApiStatus) THEN "api"
    ELSE "unknown"

\* C15: a failure to connect is reported as a connection error, an elapsed
\* timeout as a timeout error, a status other than 200 as an error of the API
\* (or at least with the message that carries the status, never as a
\* connection error or a timeout), and any other exception as an unknown
\* error with its message.
C15_FailureKinds ==
    \A i \in 1..Len(reports) :
        LET f == reports[i].failure
            kind == ReportedKind(reports[i].text)
        IN /\ f.cause = "connection" => kind = "connection"
           /\ f.cause = "timeout" => kind = "timeout"
           /\ f.cause = "status" =>
                \/ kind = "api"
                \/ kind = "unknown" /\ reports[i].text = StrError \o f.error.msg
           /\ f.cause = "other" =>
                /\ kind = "unknown"
                /\ reports[i].text = StrError \o f.error.msg

----------------------------------------------------------------------------
(* Properties of the provider configurations *)

\* C16: every call to the model is configured with a timeout: the llm of
\* every pipeline that has called the model, the llm of the chatbot of the
\* session, and the requests app.py posts
C16_ExplicitTimeouts ==
    /\ \A r \in Runs :
        (pipeline[r] # None /\ Len(calls[r]) > 0) =>
            \A i \in 1..Len(pipeline[r].chains) :
                "timeout" \in DOMAIN pipeline[r].chains[i].llm
    /\ "chatbot_instance" \in DOMAIN session_state =>
            "timeout" \in DOMAIN session_state["chatbot_instance"].llm
    /\ "timeout" \in DOMAIN AppGenerateRequest
    /\ "timeout" \in DOMAIN AppGetResponseRequest

----------------------------------------------------------------------------
(* Properties of the chat page *)

\* the answer of the server is a list of models: status 200 and a body
\* whose "data" is a non-empty list of entries that have an "id"
FirstCase(c) ==
    /\ c.base_url \in SentBaseUrls
    /\ ~c.outcome.raised
    /\ c.outcome.status_code = 200
    /\ c.outcome.body.json
    /\ c.outcome.body.object
    /\ LET data == DictGet(c.outcome.body.value, "data", <<>>) IN
        /\ Len(data) > 0
        /\ \A i \in 1..Len(data) : "id" \in DOMAIN data[i]

ResponseIds(c) ==
    LET data == c.outcome.body.value["data"] IN [i \in 1..Len(data) |-> data[i].id]

\* C18: test_connection never raises and returns a non-empty list of
\* models, the ids of the answer when the answer is a list of models and
\* ["local-model"] in every other case; is_connected is true exactly when
\* the answer is a list of models
C18_TestConnection ==
    conn_test # None =>
        /\ ~conn_test.result.raised
        /\ conn_test.op = "test_connection" =>
            /\ Len(conn_test.result.models) > 0
            /\ conn_test.result.models =
                    (IF FirstCase(conn_test) THEN ResponseIds(conn_test) ELSE FallbackModels)
        /\ conn_test.op = "is_connected" =>
            (conn_test.result.value <=> FirstCase(conn_test))

\* a step of initialize_chatbot
InitializeChatbotStep == ui_pc = "chatbot" /\ ui_pc' = "input"

\* C19: initialize_chatbot creates the chatbot when the session has none;
\* when it has one, update_config is called (the LLM and the chain are
\* built again) exactly when the configuration of the session differs from
\* the configuration the chatbot has
C19_UpdateOnlyOnChange ==
    [][InitializeChatbotStep =>
        IF "chatbot_instance" \notin DOMAIN session_state
        THEN /\ "chatbot_instance" \in DOMAIN session_state'
             /\ session_state'["chatbot_instance"].llm_inits = 1
             /\ session_state'["chatbot_instance"].chain_inits = 1
        ELSE LET before == session_state["chatbot_instance"]
                 after == session_state'["chatbot_instance"]
                 updates == IF GetConfig(session_state) # before.config THEN 1 ELSE 0
             IN /\ after.llm_inits = before.llm_inits + updates
                /\ after.chain_inits = before.chain_inits + updates
                /\ after.config = GetConfig(session_state)]_vars

\* a step of SessionStateManager.initialize
InitializeStep == ui_pc = "idle" /\ ui_pc' = "sidebar"

\* C20: initialize keeps the value of every key the session has, gives its
\* default to every other of the eight keys, leaves all eight present, and
\* a second call changes nothing
C20_InitializeOnlyAbsent ==
    [][InitializeStep =>
        /\ \A k \in DOMAIN session_state : session_state'[k] = session_state[k]
        /\ \A k \in DefaultKeys \ DOMAIN session_state : session_state'[k] = Defaults[k]
        /\ DOMAIN session_state' = (DOMAIN session_state) \cup DefaultKeys
        /\ Cardinality(DefaultKeys) = 8
        /\ SessionInitialize(session_state') = session_state']_vars

\* C20: initialize has run in a session that had a model of its own and no
\* temperature
C20_Witness ==
    /\ ui_pc = "sidebar"
    /\ script_runs = 1
    /\ session_state["model"] = PriorSession["model"]
    /\ session_state["temperature"] = DefaultTemperature
    /\ session_state["messages"] = PriorSession["messages"]

----------------------------------------------------------------------------
(* Properties of the pipeline page *)

\* C21: a run of a ContentPipeline that has no pipeline has returned the
\* error "Pipeline not initialized", has called the model never, and has
\* written nothing to the elements: the log holds what the page wrote
\* before the call
C21_NotInitialized ==
    \A r \in Runs :
        (pc[r] # "idle" /\ pipeline[r] = None) =>
            /\ pc[r] = "done"
            /\ ret[r] = NotInitialized
            /\ calls[r] = <<>>
            /\ exc[r] = NoExc
            /\ sinkLog[r] = BeforeCall(args[r])

\* C21: a click with both elements in a session that has no provider
C21_Witness ==
    \E r \in Runs :
        /\ pc[r] = "done"
        /\ pipeline[r] = None
        /\ args[r].status_text
        /\ args[r].progress_bar
        /\ "error" \in DOMAIN ret[r]

\* the values written to the progress bar, in order
ProgressValues(r) ==
    LET written == SelectSeq(sinkLog[r], LAMBDA e : e.kind = "progress")
    IN [i \in 1..Len(written) |-> written[i].value]

\* 10, 25, 50, 75, 90, 100
ProgressScale == <<10, 25, 50, 75, 90, 100>>

CompletedWritten(r) ==
    \E i \in 1..Len(sinkLog[r]) :
        \/ sinkLog[r][i] = ProgressEvent(100)
        \/ sinkLog[r][i] = StatusEvent("Pipeline completed successfully!")

\* C22: for a click of the page (both elements passed) the progress values
\* are 10, 25, 50, 75, 90, 100 in this order, as far as the run got; the
\* value of a step is written before the call of the step; 100 and the
\* completed status are written only for a result without error; after a
\* failed call of step k the last value is the one of step k
C22_Progress ==
    \A r \in Runs :
        (pc[r] # "idle" /\ args[r].status_text /\ args[r].progress_bar) =>
            LET v == ProgressValues(r) IN
            /\ Len(v) <= Len(ProgressScale)
            /\ \A i \in 1..Len(v) : v[i] = ProgressScale[i]
            /\ \A i \in 1..(Len(v) - 1) : v[i] <= v[i + 1]
            /\ Len(calls[r]) + 1 <= Len(v)
            /\ pc[r] = "wait" => v[Len(v)] = StepProgress[Len(calls[r])]
            /\ CompletedWritten(r) =>
                    (pc[r] = "done" /\ "error" \notin DOMAIN ret[r] /\ v[Len(v)] = 100)
            /\ (pc[r] = "done" /\ exc[r].origin = "oracle") =>
                    /\ "error" \in DOMAIN ret[r]
                    /\ v[Len(v)] = StepProgress[exc[r].step + 1]

\* C22: a click whose third call failed
C22_Witness ==
    \E r \in Runs :
        /\ pc[r] = "done"
        /\ args[r].status_text
        /\ args[r].progress_bar
        /\ exc[r].origin = "oracle"
        /\ exc[r].step = 2
        /\ ProgressValues(r) = <<10, 25, 50, 75>>

----------------------------------------------------------------------------
(* Properties of the conversation *)

\* the step of handle_user_input or of _handle_example_prompt that appends
\* the user turn
AskStep == ui_pc = "input" /\ ui_pc' = "call"

\* the step in which the call of the chatbot ends
RequestStep == ui_pc = "call" /\ ui_pc' = "idle"

\* the call of the chain succeeded or failed; Streamlit did not end the
\* script inside it
CallEnded == request'.called /\ request'.outcome.error # ErrStop

\* C23: get_response and get_streaming_response do not raise; when the call
\* of the chain fails, also after some chunks of a stream, they return a
\* text that begins with "Error: " and the memory is as before; when it
\* succeeds the memory has two more messages, the input of the user and
\* then the full answer, which is what they return
C23_ResponseNeverRaises ==
    [][(RequestStep /\ CallEnded) =>
        LET before == session_state["chatbot_instance"].memory
            after == session_state'["chatbot_instance"].memory
            o == request'.outcome
        IN /\ ~request'.raised
           /\ request'.method =
                (IF session_state["enable_streaming"]
                 THEN "get_streaming_response" ELSE "get_response")
           /\ IF o.error # NoError
              THEN /\ StartsWith(request'.returned, StrError)
                   /\ after = before
              ELSE /\ request'.returned = Joined(o.chunks)
                   /\ after = before
                        \o << [type |-> "human", content |-> request'.sent.input],
                              [type |-> "ai", content |-> Joined(o.chunks)] >>]_vars

\* C23: a stream has failed after a chunk
C23_Witness ==
    /\ request # None
    /\ request.phase = "done"
    /\ request.method = "get_streaming_response"
    /\ request.outcome.error # NoError
    /\ Len(request.outcome.chunks) > 0
    /\ StartsWith(request.returned, StrError)
    /\ ~request.raised

\* C24: the request that finds the displayed history empty, as the one
\* after a click on "Clear Chat" does, forwards an empty chat history
C24_ClearedHistoryNotForwarded ==
    [][(AskStep /\ session_state["messages"] = <<>>) =>
            request'.sent.chat_history = <<>>]_vars

\* the messages of the memory as turns of the session history
MemoryTurns(memory) ==
    [i \in 1..Len(memory) |->
        Turn(IF memory[i].type = "human" THEN "user" ELSE "assistant", memory[i].content)]

\* C25: between two runs of the script the turns of the memory of the
\* chatbot are the messages of the session
C25_MemoryMirrorsHistory ==
    (ui_pc = "idle" /\ "chatbot_instance" \in DOMAIN session_state) =>
        MemoryTurns(session_state["chatbot_instance"].memory) = session_state["messages"]

\* a step of initialize_chatbot in which update_config is called
UpdateConfigStep ==
    /\ InitializeChatbotStep
    /\ "chatbot_instance" \in DOMAIN session_state
    /\ session_state'["chatbot_instance"].llm_inits
            # session_state["chatbot_instance"].llm_inits

\* C26: update_config leaves the memory as it was; the new values are
\* merged into the configuration, the LLM and the chain are built from it,
\* and the chain forwards the same messages as before
C26_UpdateKeepsMemory ==
    [][UpdateConfigStep =>
        LET before == session_state["chatbot_instance"]
            after == session_state'["chatbot_instance"]
            config == DictUpdate(before.config, GetConfig(session_state))
        IN /\ after.memory = before.memory
           /\ after.config = config
           /\ after.llm = ChatSetupLlm(config, session_state)
           /\ after.system_message = ChainSystemMessage(config, session_state)
           /\ after.llm_inits = before.llm_inits + 1
           /\ after.chain_inits = before.chain_inits + 1
           /\ \A prompt \in UserPrompts :
                ChainInput(after, prompt).chat_history = ChainInput(before, prompt).chat_history]_vars

\* C26: update_config has run on a chatbot whose memory holds messages the
\* session no longer shows
C26_Witness ==
    /\ ui_pc = "input"
    /\ "chatbot_instance" \in DOMAIN session_state
    /\ session_state["chatbot_instance"].llm_inits >= 2
    /\ Len(session_state["chatbot_instance"].memory) > 0
    /\ session_state["messages"] = <<>>

\* C27: the messages of the session are pairs of a user turn and the
\* assistant turn that answers it
C27_TurnsAlternate ==
    ("messages" \in DOMAIN session_state /\ ui_pc # "call") =>
        LET m == session_state["messages"] IN
        /\ Len(m) % 2 = 0
        /\ \A i \in 1..Len(m) :
            m[i].role = (IF i % 2 = 1 THEN "user" ELSE "assistant")

\* C27: a question was answered and the next one failed
C27_Witness ==
    /\ ui_pc = "idle"
    /\ "messages" \in DOMAIN session_state
    /\ Len(session_state["messages"]) = 4
    /\ ~StartsWith(session_state["messages"][2].content, StrError)
    /\ StartsWith(session_state["messages"][4].content, StrError)
    /\ request # None
    /\ request.phase = "done"
    /\ request.outcome.error # NoError

----------------------------------------------------------------------------
(* Properties of the chat of app.py *)

UserTurnAt(i) == Len(app_messages) >= i /\ app_messages[i].role = "user"
ReplyAfter(i) == Len(app_messages) >= i + 1 /\ app_messages[i + 1].role = "assistant"

Cleared(i) == Len(app_messages) < i

\* C28: every user message of the history of app.py is eventually followed
\* by the assistant turn that answers it, unless Clear Chat has removed the
\* message from the history
C28_EveryMessageAnswered ==
    \A i \in 1..MaxAppMessages : UserTurnAt(i) ~> (ReplyAfter(i) \/ Cleared(i))

====
